---- MODULE Spec2Model ----
(***************************************************************************)
(* Model of the booking capacity analysis of space_capacity_analysis.py:   *)
(* main's loop over the spaces and analyze_space with                      *)
(* calculate_total_hours, calculate_booked_hours and                       *)
(* find_next_available_slot, and get_location_hours taken by itself; and   *)
(* of update_time_series_data, calculate_days_until and interpolate_color  *)
(* of generate_dashboard.py.                                               *)
(*                                                                         *)
(* Time is an integer number of seconds counted from 00:00 of day 0, the   *)
(* Sunday 2025-01-05; a calendar date is a day number.  A naive datetime   *)
(* is the reading of the wall clock, an aware one either that reading      *)
(* together with its UTC offset or its instant, the reading of the -05:00  *)
(* clock; the two changes of the clock of 2025 are part of the model.  A   *)
(* float number of hours is kept as the durations, in seconds, it was      *)
(* summed from; a rounded hour value is an integer number of hundredths of *)
(* an hour and a rate is an integer number of hundredths of a percent,     *)
(* which is what round(x, 2) yields.                                       *)
(***************************************************************************)
EXTENDS Integers, Sequences, FiniteSets, TLC

VARIABLES
    spaces,                 \* main: location_id of each space, in input order
    provider_hours,         \* what the Hours Provider returns, by location_id
    provider_bookings,      \* what the Bookings Provider returns, by space
    space_idx,              \* main: position of the loop over the spaces
    results,                \* main: the metrics of the spaces analysed so far
    fetched,                \* the location_id of every get_location_hours call so far
    location_hours_cache,   \* location_id -> hours mapping (main's cache)
    hours_by_date,          \* date -> sequence of <<open_time, close_time>>
    bookings,               \* raw booking records of the space
    analysis_start,         \* analysis start, as the reading of its wall clock
    start_utcoffset,        \* analysis start: its UTC offset, in seconds ahead of -05:00
    analysis_window_weeks,  \* --window
    booking_duration_hours, \* --duration, in hundredths of an hour
    output_file,            \* --output: the date in the name of the result file
    metrics,                \* period index -> period metrics computed so far
    period_idx,             \* position of the loop over the periods
    booked_intervals,       \* find_next_available_slot: sorted parsed bookings
    current_date,           \* find_next_available_slot: date being scanned
    interval_idx,           \* find_next_available_slot: position in the date's list
    check_time,             \* find_next_available_slot: candidate slot start
    examined,               \* candidate slot starts tested so far, in order
    next_available,         \* result of find_next_available_slot
    next_available_booking, \* metrics["next_available_booking"]
    pc,                     \* position in main / analyze_space
    today,                  \* generate_dashboard: weekday of datetime.now()
    csv_files,              \* generate_dashboard: the result files of the output directory
    time_series_file,       \* generate_dashboard: content of the time-series file
    file_writes,            \* generate_dashboard: writes of the time-series file so far
    time_series_data,       \* generate_dashboard: what update_time_series_data returns
    call,                   \* a single function call: the function and its arguments
    returned                \* a single function call: what the function returned

\* what main reads and never assigns
inputVars == << spaces, provider_hours, provider_bookings, analysis_start,
                start_utcoffset, analysis_window_weeks, booking_duration_hours,
                output_file >>

\* the state of main's loop over the spaces
mainVars == << space_idx, results, fetched, location_hours_cache >>

\* the locals of analyze_space and find_next_available_slot
spaceVars == << hours_by_date, bookings, metrics, period_idx, booked_intervals,
                current_date, interval_idx, check_time, examined, next_available,
                next_available_booking >>

\* the state of generate_dashboard.py
dashVars == << today, csv_files, time_series_file, file_writes, time_series_data >>

\* one call of a function taken by itself
callVars == << call, returned >>

vars == << inputVars, mainVars, spaceVars, dashVars, callVars, pc >>

-----------------------------------------------------------------------------
(* Calendar arithmetic *)

\* datetime.date(): the calendar date of an instant
DateOf(t) == t \div 86400

\* datetime.minute
MinuteOf(t) == (t % 3600) \div 60

\* the instant hh:mm:ss on date d
At(d, hh, mm, ss) == d * 86400 + hh * 3600 + mm * 60 + ss

\* timedelta(weeks=w), timedelta(days=n), timedelta(minutes=m)
Weeks(w) == w * 7 * 86400
Days(n) == n * 86400
Minutes(m) == m * 60

\* max() and min() of two datetimes, both given as instants or both as
\* readings of the same clock
Max(a, b) == IF a >= b THEN a ELSE b
Min(a, b) == IF a <= b THEN a ELSE b

-----------------------------------------------------------------------------
(* The time zone America/Toronto *)

\* The wall clock shows -05:00 (EST) or -04:00 (EDT).  An instant is the
\* reading of the -05:00 clock at it; a datetime with the offset -04:00 reads
\* EDT seconds more than its instant.
EST == 0
EDT == 3600

\* daylight saving time of 2025: from 2025-03-09 (day 63) 02:00 -05:00 to
\* 2025-11-02 (day 301) 02:00 -04:00, as instants
DstStart == At(63, 2, 0, 0)
DstEnd == At(301, 1, 0, 0)

\* the offset in force at an instant: the offset of datetime.now(tz)
OffsetAt(instant) == IF instant >= DstStart /\ instant < DstEnd THEN EDT ELSE EST

\* the offset tz.localize (is_dst=False) gives to a naive wall-clock reading: a
\* reading of the hour skipped on 2025-03-09 and one of the hour repeated on
\* 2025-11-02 get -05:00
UtcOffset(naive) ==
    IF naive >= DstStart + EDT /\ naive < DstEnd THEN EDT ELSE EST

\* the instant of tz.localize(naive)
Localize(naive) == naive - UtcOffset(naive)

\* the offsets analysis_start can carry when its wall clock reads `naive`: main
\* (lines 775-777) takes datetime.now(tz) and replaces its time of day, which
\* leaves the offset of now, an instant later on the same date
StartOffsets(naive) ==
    LET midnight == Days(DateOf(naive))
    IN  { o \in { EST, EDT } :
            \/ OffsetAt(midnight - o) = o
            \/ OffsetAt(midnight + Days(1) - 1 - o) = o }

\* configuration constants
BOOKING_TIME_INCREMENTS == {0, 15, 30, 45}
BOOKING_BUFFER_MINUTES == 15
LOCATION_ID == "loc"

\* the value None returned by find_next_available_slot
None == -1

-----------------------------------------------------------------------------
(* Rounding *)

\* the integer nearest to n / d, the exact middle going to the even one.  It
\* is what round() makes of the float of n / d when n / d is no exact middle:
\* the float then lies on the same side of the middle as n / d, the rounding
\* errors of the sums and quotients of the code being far smaller than
\* 1 / (2 * d).  At an exact middle the float decides, see RoundHours and
\* BookingRate.
RoundDiv(n, d) ==
    LET q == n \div d
        r == n % d
    IN  IF 2 * r < d THEN q
        ELSE IF 2 * r > d THEN q + 1
        ELSE IF q % 2 = 0 THEN q ELSE q + 1

\* floor(log2(n)) of an integer n >= 1
RECURSIVE Log2(_)
Log2(n) == IF n < 2 THEN 0 ELSE 1 + Log2(n \div 2)

\* 2^k
RECURSIVE Pow2(_)
Pow2(k) == IF k = 0 THEN 1 ELSE 2 * Pow2(k - 1)

-----------------------------------------------------------------------------
(* Binary floating point *)

\* The hours and the rate of the code are Python floats (IEEE 754 doubles) and
\* round(x, 2) rounds the double, not the number it stands for.  A double is
\* computed here exactly.  A natural number of any size is the sequence of its
\* digits to the base 2^15, the lowest first, without leading zeros.
Base == 32768

RECURSIVE BigDigits(_)
BigDigits(n) == IF n = 0 THEN << >> ELSE << n % Base >> \o BigDigits(n \div Base)

RECURSIVE BigValue(_)
BigValue(a) == IF a = << >> THEN 0 ELSE Head(a) + Base * BigValue(Tail(a))

RECURSIVE BigTrim(_)
BigTrim(a) ==
    IF a # << >> /\ a[Len(a)] = 0 THEN BigTrim(SubSeq(a, 1, Len(a) - 1)) ELSE a

BigDigit(a, i) == IF i <= Len(a) THEN a[i] ELSE 0

\* -1, 0 or 1 as a is less than, equal to or greater than b
BigCmp(a, b) ==
    IF Len(a) # Len(b) THEN (IF Len(a) < Len(b) THEN -1 ELSE 1)
    ELSE IF a = b THEN 0
    ELSE IF \E i \in 1..Len(a) : a[i] < b[i] /\ \A j \in (i + 1)..Len(a) : a[j] = b[j]
         THEN -1 ELSE 1

RECURSIVE BigAddFrom(_, _, _, _)
BigAddFrom(a, b, i, carry) ==
    IF i > Len(a) /\ i > Len(b) THEN (IF carry = 0 THEN << >> ELSE << carry >>)
    ELSE << (BigDigit(a, i) + BigDigit(b, i) + carry) % Base >>
         \o BigAddFrom(a, b, i + 1, (BigDigit(a, i) + BigDigit(b, i) + carry) \div Base)

BigAdd(a, b) == BigAddFrom(a, b, 1, 0)

\* a - b for a >= b
RECURSIVE BigSubFrom(_, _, _, _)
BigSubFrom(a, b, i, borrow) ==
    IF i > Len(a) THEN << >>
    ELSE << (a[i] - BigDigit(b, i) - borrow) % Base >>
         \o BigSubFrom(a, b, i + 1, IF a[i] - BigDigit(b, i) - borrow < 0 THEN 1 ELSE 0)

BigSub(a, b) == BigTrim(BigSubFrom(a, b, 1, 0))

\* a * k for 0 <= k < Base
RECURSIVE BigTimesFrom(_, _, _, _)
BigTimesFrom(a, k, i, carry) ==
    IF i > Len(a) THEN (IF carry = 0 THEN << >> ELSE << carry >>)
    ELSE << (a[i] * k + carry) % Base >> \o BigTimesFrom(a, k, i + 1, (a[i] * k + carry) \div Base)

BigTimes(a, k) == BigTrim(BigTimesFrom(a, k, 1, 0))

\* a * 2^bits
BigShift(a, bits) ==
    IF a = << >> THEN << >>
    ELSE [ i \in 1..(bits \div 15) |-> 0 ] \o BigTimes(a, Pow2(bits % 15))

\* a \div 2
BigHalf(a) == IF a = << >> THEN << >> ELSE Tail(BigTimes(a, Base \div 2))

\* the number of binary digits of a
BigBits(a) == IF a = << >> THEN 0 ELSE 15 * (Len(a) - 1) + Log2(a[Len(a)]) + 1

\* the greatest of from, from + step .. from + 31 * step whose product with d
\* is at most n, d * from being at most n
QuotientFrom(n, d, from, step) ==
    from + step * Cardinality({ k \in 1..31 : BigCmp(BigTimes(d, from + k * step), n) <= 0 })

\* the greatest q of 0..(Base - 1) with d * q <= n, found five binary digits
\* at a time
QuotientDigit(n, d) ==
    QuotientFrom(n, d, QuotientFrom(n, d, QuotientFrom(n, d, 0, 1024), 32), 1)

\* long division: the digits i, i - 1 .. 1 of n are brought down to the
\* remainder rem of the digits above them, quot the digits of the quotient
\* found so far; cur is the remainder with the digit i and q its quotient digit
RECURSIVE BigDivFrom(_, _, _, _, _)
BigDivDigit(n, d, i, cur, q, quot) ==
    IF q = 0 THEN BigDivFrom(n, d, i - 1, cur, << 0 >> \o quot)
    ELSE BigDivFrom(n, d, i - 1, BigSub(cur, BigTimes(d, q)), << q >> \o quot)

BigDivStep(n, d, i, cur, quot) == BigDivDigit(n, d, i, cur, QuotientDigit(cur, d), quot)

BigDivFrom(n, d, i, rem, quot) ==
    IF i = 0 THEN [ q |-> BigTrim(quot), r |-> rem ]
    ELSE BigDivStep(n, d, i, BigTrim(<< n[i] >> \o rem), quot)

\* quotient and remainder of n by d > 0; the digits of n above the place of
\* the highest digit of d are less than d
BigDivMod(n, d) ==
    IF Len(n) < Len(d) THEN [ q |-> << >>, r |-> n ]
    ELSE BigDivFrom(n, d, Len(n) - Len(d) + 1, SubSeq(n, Len(n) - Len(d) + 2, Len(n)), << >>)

BigOdd(a) == a # << >> /\ a[1] % 2 = 1

\* A double is [neg, m, e]: the number m * 2^e, negative if neg, with m of 53
\* binary digits, or m = 0 for 0.0.
Zero == [ neg |-> FALSE, m |-> << >>, e |-> 0 ]

Float(neg, m, e) == [ neg |-> neg, m |-> m, e |-> e ]

\* n of 53 or 54 binary digits as a mantissa: 2^53 is 2^52 * 2
Normal(neg, n, e) ==
    IF BigBits(n) = 54 THEN Float(neg, BigHalf(n), e + 1) ELSE Float(neg, n, e)

\* m, or m + 1 when the digits cut off are more than half a unit of m or are
\* half a unit and m is odd (round half to even)
Rounded(neg, m, e, up) == Normal(neg, IF up THEN BigAdd(m, << 1 >>) ELSE m, e)

\* the quotient qr.q of 53 or 54 binary digits and the remainder qr.r of a
\* division by den, rounded to 53 binary digits
RoundedQuotient(neg, qr, den, e) ==
    IF BigBits(qr.q) = 54
    THEN Rounded(neg, BigHalf(qr.q), e + 1,
                 BigOdd(qr.q) /\ (qr.r # << >> \/ BigOdd(BigHalf(qr.q))))
    ELSE Rounded(neg, qr.q, e,
                 \/ BigCmp(BigAdd(qr.r, qr.r), den) > 0
                 \/ BigCmp(BigAdd(qr.r, qr.r), den) = 0 /\ BigOdd(qr.q))

FloatOfRatio(neg, num, den, e) == RoundedQuotient(neg, BigDivMod(num, den), den, e)

FloatOfShifted(neg, n, d, e, sh) ==
    FloatOfRatio(neg,
                 IF sh >= 0 THEN BigShift(n, sh) ELSE n,
                 IF sh >= 0 THEN d ELSE BigShift(d, 0 - sh),
                 e - sh)

\* the double nearest to n / d * 2^e
FloatOf(neg, n, d, e) ==
    IF n = << >> THEN Zero
    ELSE FloatOfShifted(neg, n, d, e, 53 - (BigBits(n) - BigBits(d)))

\* a / b of two integers, b > 0
FloatQuotient(a, b) ==
    FloatOf(a < 0, BigDigits(IF a < 0 THEN 0 - a ELSE a), BigDigits(b), 0)

\* xm * 2^e + ym * 2^e, each negative as its sign says
FloatSum(xneg, xm, yneg, ym, e) ==
    FloatOf(IF BigCmp(xm, ym) >= 0 THEN xneg ELSE yneg,
            IF xneg = yneg THEN BigAdd(xm, ym)
            ELSE IF BigCmp(xm, ym) >= 0 THEN BigSub(xm, ym)
            ELSE BigSub(ym, xm),
            << 1 >>, e)

FloatAligned(x, y, e) ==
    FloatSum(x.neg, BigShift(x.m, x.e - e), y.neg, BigShift(y.m, y.e - e), e)

\* x + y
FloatAdd(x, y) ==
    IF x.m = << >> THEN y
    ELSE IF y.m = << >> THEN x
    ELSE FloatAligned(x, y, IF x.e <= y.e THEN x.e ELSE y.e)

\* x / y, y not 0.0
FloatDiv(x, y) ==
    IF x.m = << >> THEN Zero ELSE FloatOf(x.neg # y.neg, x.m, y.m, x.e - y.e)

\* x * k for an integer 0 < k < Base
FloatTimes(x, k) ==
    IF x.m = << >> THEN Zero ELSE FloatOf(x.neg, BigTimes(x.m, k), << 1 >>, x.e)

\* the integer nearest to the quotient q with the remainder r of a division
\* by den, the exact middle going to the even one
NearestInteger(q, r, den) ==
    IF \/ BigCmp(BigAdd(r, r), den) > 0
       \/ BigCmp(BigAdd(r, r), den) = 0 /\ q % 2 = 1
    THEN q + 1 ELSE q

FloatRound2Of(qr, den) == NearestInteger(BigValue(qr.q), qr.r, den)

FloatRound2Abs(n, e) ==
    IF e >= 0 THEN BigValue(BigShift(n, e))
    ELSE FloatRound2Of(BigDivMod(n, BigShift(<< 1 >>, 0 - e)), BigShift(<< 1 >>, 0 - e))

\* round(x, 2) in hundredths: the integer nearest to x * 100, the exact
\* middle going to the even one
FloatRound2(x) ==
    IF x.neg THEN 0 - FloatRound2Abs(BigTimes(x.m, 100), x.e)
    ELSE FloatRound2Abs(BigTimes(x.m, 100), x.e)

\* total += duration over the durations, each (seconds) / 3600
RECURSIVE FloatHoursFrom(_, _, _)
FloatHoursFrom(durations, i, total) ==
    IF i > Len(durations) THEN total
    ELSE FloatHoursFrom(durations, i + 1, FloatAdd(total, FloatQuotient(durations[i], 3600)))

FloatHours(durations) == FloatHoursFrom(durations, 1, Zero)

-----------------------------------------------------------------------------
(* Hours as floats *)

\* the exact number of seconds of a float number of hours
RECURSIVE Seconds(_)
Seconds(durations) ==
    IF durations = << >> THEN 0 ELSE Head(durations) + Seconds(Tail(durations))

\* an interval that closes before it opens adds a negative duration
Negative(durations) == \E i \in DOMAIN durations : durations[i] < 0

\* the rounding errors of a sum with negative terms can outweigh the sum when
\* the terms cancel.  The errors of the sums of the code (durations of less
\* than a day each, partial sums of a few thousand hours) stay far below a
\* millionth of a second, so they decide the sign and the rate only of a sum
\* of less than an hour.
Cancelling(durations) ==
    /\ Negative(durations)
    /\ Seconds(durations) < 3600
    /\ Seconds(durations) > -3600

\* total_hours > 0
Positive(durations) ==
    IF Cancelling(durations)
    THEN LET x == FloatHours(durations) IN x.m # << >> /\ ~x.neg
    ELSE Seconds(durations) > 0

\* round(hours, 2), in hundredths of an hour: 1 / 200 of an hour is 18 seconds
RoundHours(durations) ==
    IF Cancelling(durations) \/ Seconds(durations) % 36 = 18
    THEN FloatRound2(FloatHours(durations))
    ELSE RoundDiv(Seconds(durations), 36)

-----------------------------------------------------------------------------
(* Booking records *)

\* A raw booking record is a function from its keys to values.  A value is
\* [kind, wall, offset]: kind "str" is an ISO timestamp string reading `wall`
\* with UTC offset `offset`, kind "bad" a string that is no timestamp and
\* kind "null" a value that is not a string (None, a number).

\* booking[key].replace("+11:00", "") handed to datetime.fromisoformat: the
\* exception the expression raises, or "ok"
TimestampOutcome(booking, key) ==
    IF key \notin DOMAIN booking THEN "KeyError"
    ELSE IF booking[key].kind = "null" THEN "AttributeError"
    ELSE IF booking[key].kind = "bad" THEN "ValueError"
    ELSE "ok"

\* the body of the try block: fromDate is parsed before toDate
BookingOutcome(booking) ==
    IF TimestampOutcome(booking, "fromDate") # "ok"
    THEN TimestampOutcome(booking, "fromDate")
    ELSE TimestampOutcome(booking, "toDate")

\* except (KeyError, ValueError): continue
Caught(outcome) == outcome \in { "KeyError", "ValueError" }

\* an exception leaves the loop over the bookings
Raises(bks) ==
    \E i \in 1..Len(bks) :
        BookingOutcome(bks[i]) # "ok" /\ ~Caught(BookingOutcome(bks[i]))

\* datetime.fromisoformat(s.replace("+11:00", "")) followed by
\* replace(tzinfo=None) and tz.localize: the wall-clock reading of the
\* timestamp is kept, whatever UTC offset it carried is dropped, and the
\* reading is taken as one of the America/Toronto clock; the result is an instant
ParseTimestamp(raw) == Localize(raw.wall)

\* the (from_date, to_date) pair of a raw booking record
ParseBooking(booking) ==
    << ParseTimestamp(booking.fromDate), ParseTimestamp(booking.toDate) >>

-----------------------------------------------------------------------------
(* calculate_total_hours *)

\* the inner for loop: (close_time - open_time).total_seconds() of one date's
\* intervals, in the order they are added to total_hours; close_time -
\* open_time is the time between the two instants
Durations(intervals) ==
    [ i \in 1..Len(intervals) |->
        Localize(intervals[i][2]) - Localize(intervals[i][1]) ]

\* the while loop over current_date <= end_date_only; the dates without an entry
\* add nothing and are passed over in one step
RECURSIVE TotalHoursLoop(_, _, _)
TotalHoursLoop(hours, date, end_date_only) ==
    LET listed == { d \in DOMAIN hours : date <= d /\ d <= end_date_only }
    IN  IF listed = {} THEN << >>
        ELSE LET next == CHOOSE d \in listed : \A e \in listed : d <= e
             IN  Durations(hours[next]) \o TotalHoursLoop(hours, next + 1, end_date_only)

\* calculate_total_hours with the end date excluded: current_date < end_date_only
calculate_total_hours_ExclusiveEnd(hours, start_date, end_date) ==
    TotalHoursLoop(hours, DateOf(start_date), DateOf(end_date) - 1)

\* total available hours from the date of start_date through the date of
\* end_date
calculate_total_hours(hours, start_date, end_date) ==
    TotalHoursLoop(hours, DateOf(start_date), DateOf(end_date))

-----------------------------------------------------------------------------
(* calculate_booked_hours *)

\* end_date_inclusive without the extension to the end of the day
EndDateInclusive_NotExtended(end_date) == end_date

\* end_date.replace(hour=23, minute=59, second=59)
EndDateInclusive(end_date) == At(DateOf(end_date), 23, 59, 59)

\* the instant of a datetime that carries the tzinfo of analysis_start: the
\* start and the ends of the periods, which are the start plus a timedelta
StartInstant(t) == t - start_utcoffset

\* the loop over the bookings without the clip to start_date
RECURSIVE BookedLoop_NoStartClip(_, _, _, _)
BookedLoop_NoStartClip(bks, i, start_date, end_date_inclusive) ==
    IF i > Len(bks) THEN << << >>, 0 >>
    ELSE IF Caught(BookingOutcome(bks[i]))
    THEN BookedLoop_NoStartClip(bks, i + 1, start_date, end_date_inclusive)
    ELSE LET parsed        == ParseBooking(bks[i])
             booking_start == parsed[1]
             booking_end   == Min(parsed[2], end_date_inclusive)
             rest          == BookedLoop_NoStartClip(bks, i + 1, start_date, end_date_inclusive)
         IN  IF booking_start < booking_end
             THEN << << booking_end - booking_start >> \o rest[1], 1 + rest[2] >>
             ELSE rest

\* the loop over the bookings: <<hours booked, booking count>>; start_date
\* and end_date_inclusive are instants, as max(), min(), < and - of datetimes
\* with different offsets go by the instant
RECURSIVE BookedLoop(_, _, _, _)
BookedLoop(bks, i, start_date, end_date_inclusive) ==
    IF i > Len(bks) THEN << << >>, 0 >>
    ELSE IF Caught(BookingOutcome(bks[i]))
    THEN BookedLoop(bks, i + 1, start_date, end_date_inclusive)
    ELSE LET parsed        == ParseBooking(bks[i])
             booking_start == Max(parsed[1], start_date)
             booking_end   == Min(parsed[2], end_date_inclusive)
             rest          == BookedLoop(bks, i + 1, start_date, end_date_inclusive)
         IN  IF booking_start < booking_end
             THEN << << booking_end - booking_start >> \o rest[1], 1 + rest[2] >>
             ELSE rest

calculate_booked_hours(bks, start_date, end_date) ==
    BookedLoop(bks, 1, StartInstant(start_date), StartInstant(EndDateInclusive(end_date)))

-----------------------------------------------------------------------------
(* analyze_space: the period metrics *)

PeriodNames == << "1week", "2weeks", "1month", "2months", "3months" >>

\* the periods dictionary, in its insertion order
PeriodDelta(i) == << Weeks(1), Weeks(2), Days(30), Days(60), Days(90) >>[i]

NumPeriods == Len(PeriodNames)

AnalysisEnd(start, weeks) == start + Weeks(weeks)

\* period_end = min(analysis_start + period_delta, analysis_end)
PeriodEnd(start, weeks, i) == Min(start + PeriodDelta(i), AnalysisEnd(start, weeks))

\* the rate left as a fraction: booked_hours / total_hours without * 100
BookingRate_Fraction(booked_hours, total_hours) ==
    IF Positive(total_hours)
    THEN RoundDiv(Seconds(booked_hours) * 100, Seconds(total_hours))
    ELSE 0

\* the rate with a period without open hours reported as fully booked
BookingRate_FullWhenClosed(booked_hours, total_hours) ==
    IF Positive(total_hours)
    THEN RoundDiv(Seconds(booked_hours) * 10000, Seconds(total_hours))
    ELSE 10000

\* round(booked_hours / total_hours * 100 if total_hours > 0 else 0.0, 2),
\* in hundredths of a percent.  The floats are computed when the exact rate
\* is an exact middle of two hundredths, when negative durations cancel, and
\* when booked * 10000 is too large a number.
BookingRate(booked_hours, total_hours) ==
    LET booked == Seconds(booked_hours)
        total  == Seconds(total_hours)
    IN  IF ~Positive(total_hours) THEN 0
        ELSE IF \/ Cancelling(total_hours)
                \/ booked > 200000
                \/ 2 * ((booked * 10000) % total) = total
        THEN FloatRound2(FloatTimes(FloatDiv(FloatHours(booked_hours),
                                             FloatHours(total_hours)), 100))
        ELSE RoundDiv(booked * 10000, total)

\* the four metrics of one period
PeriodMetrics(hours, bks, start, weeks, i) ==
    LET period_end  == PeriodEnd(start, weeks, i)
        total_hours == calculate_total_hours(hours, start, period_end)
        booked      == calculate_booked_hours(bks, start, period_end)
    IN  [ booking_rate          |-> BookingRate(booked[1], total_hours),
          total_hours_available |-> RoundHours(total_hours),
          total_hours_booked    |-> RoundHours(booked[1]),
          booking_count         |-> booked[2] ]

-----------------------------------------------------------------------------
(* find_next_available_slot *)

\* the least k with hundredths * 2^k >= 100, for hundredths in 1..99
RECURSIVE ShiftsToOne(_)
ShiftsToOne(hundredths) ==
    IF hundredths >= 100 THEN 0 ELSE 1 + ShiftsToOne(hundredths * 2)

\* 2^k modulo 100
RECURSIVE Pow2Mod100(_)
Pow2Mod100(k) == IF k = 0 THEN 1 ELSE (2 * Pow2Mod100(k - 1)) % 100

\* the exponent of the double nearest to hundredths / 100: floor(log2) of it
FloatExponent(hundredths) ==
    IF hundredths >= 100 THEN Log2(hundredths \div 100) ELSE 0 - ShiftsToOne(hundredths)

\* line 379: duration_minutes = int(duration_hours * 60), duration_hours being
\* the double nearest to hundredths / 100 (argparse, type=float) and the
\* product being rounded to a double before int() truncates it.  The product
\* of the exact numbers is hundredths * 3 / 5.  When that is no whole number it
\* is at least 1/5 away from one and the rounding cannot cross it.  When it is
\* a whole number n, the double is n unless duration_hours lies below
\* hundredths / 100 by more than half the distance from n to the double before
\* it takes to make up: with 52 - e fraction bits of duration_hours, e its
\* exponent, the remainder r of hundredths * 2^(52 - e) by 100 tells the side
\* (r < 50: below) and the amount, r / 100 units of the last bit.
\* A negative duration is the negative of the double of its amount, and int()
\* truncates toward zero: the minutes are those of the amount, negated.
DurationMinutes(duration_hours) ==
    LET amount  == IF duration_hours < 0 THEN 0 - duration_hours ELSE duration_hours
        exact   == (amount * 60) \div 100
        minutes ==
            IF amount % 5 # 0 \/ amount = 0 THEN exact
            ELSE LET e     == FloatExponent(amount)
                     r     == ((amount % 100) * Pow2Mod100(52 - e)) % 100
                     below == Log2(exact - 1)
                 IN  IF r > 0 /\ r < 50 /\ (3 * r) \div 5 > Pow2(below - e - 1)
                     THEN exact - 1
                     ELSE exact
    IN  IF duration_hours < 0 THEN 0 - minutes ELSE minutes

\* lexicographic order of (from_date, to_date) tuples
TupleLess(a, b) == a[1] < b[1] \/ (a[1] = b[1] /\ a[2] < b[2])

\* seq with tuple x inserted before the first element greater than it
RECURSIVE InsertSorted(_, _)
InsertSorted(seq, x) ==
    IF seq = << >> THEN << x >>
    ELSE IF TupleLess(x, Head(seq)) THEN << x >> \o seq
    ELSE << Head(seq) >> \o InsertSorted(Tail(seq), x)

\* the loop that parses the bookings, followed by booked_intervals.sort()
RECURSIVE BookedIntervals(_, _)
BookedIntervals(bks, n) ==
    IF n = 0 THEN << >>
    ELSE IF Caught(BookingOutcome(bks[n])) THEN BookedIntervals(bks, n - 1)
    ELSE InsertSorted(BookedIntervals(bks, n - 1), ParseBooking(bks[n]))

\* max_date = (start_time + timedelta(weeks=16)).date()
MaxDate(start_time) == DateOf(start_time + Weeks(16))

\* check_time.replace(minute=(check_time.minute // 15) * 15, second=0, microsecond=0)
FloorToIncrement(t) == (t - (t % 3600)) + Minutes((MinuteOf(t) \div 15) * 15)

\* the first check_time without the floor to the grid
\* (open_time and start_time are instants; the minute of an instant is the
\* minute of its wall clock, the offsets being whole hours)
FirstCheckTime_NoFloor(open_time, start_time) == Max(open_time, start_time)

\* the first check_time taken from open_time alone, without max(.., start_time)
FirstCheckTime_IgnoresStart(open_time, start_time) ==
    LET floored == FloorToIncrement(open_time)
    IN  IF MinuteOf(floored) \notin BOOKING_TIME_INCREMENTS
        THEN (floored - (floored % 3600)) + Minutes(15 * ((MinuteOf(floored) \div 15) + 1))
        ELSE floored

\* the first check_time of an operating interval
FirstCheckTime(open_time, start_time) ==
    LET floored == FloorToIncrement(Max(open_time, start_time))
    IN  IF MinuteOf(floored) \notin BOOKING_TIME_INCREMENTS
        THEN (floored - (floored % 3600)) + Minutes(15 * ((MinuteOf(floored) \div 15) + 1))
        ELSE floored

\* the overlap test with closed ranges: touching ranges count as a conflict
IsAvailable_Closed(slot_start, slot_end, intervals) ==
    \A i \in 1..Len(intervals) :
        ~(slot_start <= intervals[i][2] /\ slot_end >= intervals[i][1])

\* the loop over booked_intervals that sets is_available
IsAvailable(slot_start, slot_end, intervals) ==
    \A i \in 1..Len(intervals) :
        ~(slot_start < intervals[i][2] /\ slot_end > intervals[i][1])

\* the while loop's run over dates that have no entry: the first date from
\* `date` on that has an entry, or the first date after max_date
NextListedDate(hours, date, max_date) ==
    LET listed == { d \in DOMAIN hours : date <= d /\ d <= max_date }
    IN  IF date > max_date THEN date
        ELSE IF listed = {} THEN max_date + 1
        ELSE CHOOSE d \in listed : \A e \in listed : d <= e

\* line 414: max(open_time, start_time) is start_time when it is the later one,
\* and check_time keeps the offset of the datetime it was made from
CheckTimeOffset(open_time, start_time) ==
    IF StartInstant(start_time) > Localize(open_time) THEN start_utcoffset
    ELSE UtcOffset(open_time)

\* the wall-clock reading of a datetime that is the instant t with this offset
WallClock(t, offset) == t + offset

\* next_available.strftime("%Y-%m-%d %H:%M") or the sentinel; slot is the
\* reading of the wall clock of next_available
FormatNextAvailable(slot) ==
    IF slot = None
    THEN [ text |-> "No availability", date |-> 0, hour |-> 0, minute |-> 0 ]
    ELSE [ text |-> "%Y-%m-%d %H:%M", date |-> DateOf(slot),
           hour |-> (slot % 86400) \div 3600, minute |-> MinuteOf(slot) ]

-----------------------------------------------------------------------------
(* Inputs *)

MaxOpenDates == 2
MaxBookings == 3

\* now(tz).replace(hour=0, minute=0, second=0, microsecond=0): the analysis
\* starts at the midnight of its date; day 1, so that day 0 lies before it
AnalysisStarts == { At(1, 0, 0, 0) }

WindowWeeks == { 1, 13 }

\* 1.0 and 3.0 hours
DurationHours == { 100, 300 }

\* dates that may carry operating hours: the first day, the day one week on,
\* a day inside the first month and the day after the 16-week search horizon
OpenDates == { 1, 8, 21, 114 }

\* operating intervals of one date, as offsets from its midnight: one interval,
\* one interval opening off the 15-minute grid, split hours listed afternoon
\* first, and hours from 7:00am to 12:00am, whose close is read on the date of
\* the open (both strings are parsed against the same date_str) and so lies
\* before it
IntervalLists ==
    << << << At(0, 9, 0, 0), At(0, 17, 0, 0) >> >>,
       << << At(0, 9, 5, 0), At(0, 12, 0, 0) >> >>,
       << << At(0, 13, 0, 0), At(0, 17, 0, 0) >>, << At(0, 9, 0, 0), At(0, 12, 0, 0) >> >>,
       << << At(0, 7, 0, 0), At(0, 0, 0, 0) >> >> >>

HoursOn(date, k) ==
    [ i \in 1..Len(IntervalLists[k]) |->
        << Days(date) + IntervalLists[k][i][1], Days(date) + IntervalLists[k][i][2] >> ]

HoursMappings ==
    UNION { { [ d \in D |-> HoursOn(d, f[d]) ] : f \in [ D -> 1..Len(IntervalLists) ] } :
            D \in { S \in SUBSET OpenDates : Cardinality(S) <= MaxOpenDates } }

\* an ISO timestamp string
Timestamp(wall, offset) == [ kind |-> "str", wall |-> wall, offset |-> offset ]

RawBooking(from, to, offset) ==
    [ fromDate |-> Timestamp(from, offset), toDate |-> Timestamp(to, offset) ]

\* the bookings the provider may return, in the order it returns them: one
\* inside the first month, one late on the date on which the first week ends,
\* one on the date on which a window of 13 weeks ends, one over the opening
\* of day 1, one on the day before the analysis starts
BookingPool ==
    << RawBooking(At(21, 10, 0, 0), At(21, 11, 0, 0), "-05:00"),
       RawBooking(At(8, 23, 0, 0), At(9, 1, 0, 0), "-05:00"),
       RawBooking(At(92, 10, 0, 0), At(92, 11, 0, 0), "+11:00"),
       RawBooking(At(1, 9, 0, 0), At(1, 10, 30, 0), "-04:00"),
       RawBooking(At(0, 10, 0, 0), At(0, 11, 0, 0), "-05:00") >>

\* the records of the pool at the positions in S, in pool order
RECURSIVE PickBookings(_, _)
PickBookings(S, i) ==
    IF i > Len(BookingPool) THEN << >>
    ELSE (IF i \in S THEN << BookingPool[i] >> ELSE << >>) \o PickBookings(S, i + 1)

BookingLists ==
    { PickBookings(S, 1) :
        S \in { T \in SUBSET (1..Len(BookingPool)) : Cardinality(T) <= MaxBookings } }

-----------------------------------------------------------------------------
(* Inputs around the two changes of the clock *)

MaxDstBookings == 2

\* the dates on which the clock changes: 2025-03-09 and 2025-11-02
ClockChangeDates == { DateOf(DstStart), DateOf(DstEnd) }

\* the analysis starts on the Monday before the change or on its date
DstAnalysisStarts(change) == { At(change - 6, 0, 0, 0), At(change, 0, 0, 0) }

\* operating hours on the date of the change: from 00:30 to 09:00, across the
\* change, from 00:30 to 23:45, and from a time of the hour that is skipped
\* (02:30 on 2025-03-09) or repeated (01:30 on 2025-11-02) to 10:00
AcrossChange(change) == << << At(change, 0, 30, 0), At(change, 9, 0, 0) >> >>
LongDay(change) == << << At(change, 0, 30, 0), At(change, 23, 45, 0) >> >>
InChangedHour(change) ==
    << << At(change, IF change = DateOf(DstStart) THEN 2 ELSE 1, 30, 0),
          At(change, 10, 0, 0) >> >>

DstHoursMappings(change) ==
    { << >>,
      (change :> AcrossChange(change)),
      (change :> InChangedHour(change)),
      (change :> LongDay(change)),
      [ d \in { change, change + 1 } |->
          IF d = change THEN AcrossChange(change) ELSE HoursOn(d, 1) ] }

\* bookings late on the day after the change, where the first week of an
\* analysis started on the Monday before ends, one of them into the next day,
\* a booking across the change, and one from 00:00 to 23:00 of its date
DstBookingPool(change) ==
    << RawBooking(At(change + 1, 23, 15, 0), At(change + 1, 23, 45, 0), "-05:00"),
       RawBooking(At(change + 1, 22, 30, 0), At(change + 1, 23, 30, 0), "-05:00"),
       RawBooking(At(change + 1, 23, 30, 0), At(change + 2, 0, 30, 0), "-04:00"),
       RawBooking(At(change, 0, 45, 0), At(change, 3, 30, 0), "-04:00"),
       RawBooking(At(change, 0, 0, 0), At(change, 23, 0, 0), "-05:00") >>

\* 0.5 and 1.0 hours
DstDurationHours == { 50, 100 }

DstBookingLists(change) ==
    { SelectSeq(DstBookingPool(change),
                LAMBDA b : \E i \in S : DstBookingPool(change)[i] = b) :
        S \in { T \in SUBSET (1..Len(DstBookingPool(change))) :
                  Cardinality(T) <= MaxDstBookings } }

-----------------------------------------------------------------------------
(* The state machine: one call of analyze_space *)

\* no function is called by itself
NoCall ==
    /\ call = << >>
    /\ returned = << >>

\* generate_dashboard.py has not run
DashIdle ==
    /\ today = 0
    /\ csv_files = {}
    /\ time_series_file = << >>
    /\ file_writes = 0
    /\ time_series_data = << >>

\* lines 778-779 and the locals of analyze_space before its first statement
StartOfRun ==
    /\ space_idx = 1
    /\ results = << >>
    /\ fetched = << >>
    /\ location_hours_cache = << >>
    /\ hours_by_date = << >>
    /\ bookings = << >>
    /\ metrics = << >>
    /\ period_idx = 1
    /\ booked_intervals = << >>
    /\ current_date = 0
    /\ interval_idx = 0
    /\ check_time = 0
    /\ examined = << >>
    /\ next_available = None
    /\ next_available_booking = [ text |-> "", date |-> 0, hour |-> 0, minute |-> 0 ]

Init ==
    /\ spaces = << LOCATION_ID >>
    /\ \/ /\ provider_hours \in { (LOCATION_ID :> h) : h \in HoursMappings }
          /\ provider_bookings \in { << b >> : b \in BookingLists }
          /\ analysis_start \in AnalysisStarts
          /\ booking_duration_hours \in DurationHours
       \/ \E change \in ClockChangeDates :
              /\ provider_hours \in { (LOCATION_ID :> h) : h \in DstHoursMappings(change) }
              /\ provider_bookings \in { << b >> : b \in DstBookingLists(change) }
              /\ analysis_start \in DstAnalysisStarts(change)
              /\ booking_duration_hours \in DstDurationHours
    /\ start_utcoffset \in StartOffsets(analysis_start)
    /\ output_file = DateOf(analysis_start)
    /\ analysis_window_weeks \in WindowWeeks
    /\ StartOfRun
    /\ pc = "hours"
    /\ DashIdle
    /\ NoCall

\* `location_id not in location_hours_cache` read as `not cache.get(location_id)`
CacheMiss_WhenEmpty(cache, location_id) ==
    location_id \notin DOMAIN cache \/ cache[location_id] = << >>

\* line 473: location_id not in location_hours_cache
CacheMiss(cache, location_id) == location_id \notin DOMAIN cache

\* lines 473-482: the hours of the location, fetched into the cache when absent,
\* and the bookings of the space
GetHours ==
    /\ pc = "hours"
    /\ LET location_id == spaces[space_idx]
       IN  /\ IF CacheMiss(location_hours_cache, location_id)
              THEN /\ location_hours_cache' =
                        [ l \in DOMAIN location_hours_cache \cup { location_id } |->
                            IF l = location_id THEN provider_hours[location_id]
                            ELSE location_hours_cache[l] ]
                   /\ fetched' = Append(fetched, location_id)
              ELSE UNCHANGED << location_hours_cache, fetched >>
           /\ hours_by_date' = location_hours_cache'[location_id]
    /\ bookings' = provider_bookings[space_idx]
    /\ pc' = "periods"
    /\ UNCHANGED << inputVars, callVars, dashVars, space_idx, results, metrics, period_idx,
                    booked_intervals, current_date, interval_idx, check_time,
                    examined, next_available, next_available_booking >>

\* lines 501-519: one iteration of the loop over the periods; an exception that
\* calculate_booked_hours does not catch leaves analyze_space and reaches the
\* handler of main (lines 810-815), which exits
ComputePeriod ==
    /\ pc = "periods"
    /\ period_idx <= NumPeriods
    /\ IF Raises(bookings)
       THEN /\ pc' = "aborted"
            /\ UNCHANGED << metrics, period_idx >>
       ELSE /\ metrics' = Append(metrics, PeriodMetrics(hours_by_date, bookings,
                                     analysis_start, analysis_window_weeks, period_idx))
            /\ period_idx' = period_idx + 1
            /\ pc' = IF period_idx = NumPeriods THEN "search" ELSE "periods"
    /\ UNCHANGED << inputVars, callVars, mainVars, dashVars, hours_by_date, bookings,
                    booked_intervals, current_date, interval_idx, check_time, examined,
                    next_available, next_available_booking >>

\* the raw list overwritten with its normalised, sorted intervals
SearchStart_SortsBookings ==
    /\ pc = "search"
    /\ IF Raises(bookings)
       THEN /\ pc' = "aborted"
            /\ UNCHANGED << bookings, booked_intervals, current_date >>
       ELSE /\ booked_intervals' = BookedIntervals(bookings, Len(bookings))
            /\ bookings' = [ i \in 1..Len(booked_intervals') |->
                               RawBooking(booked_intervals'[i][1],
                                          booked_intervals'[i][2], "") ]
            /\ current_date' = DateOf(analysis_start)
            /\ pc' = "date"
    /\ UNCHANGED << inputVars, callVars, mainVars, dashVars, hours_by_date,
                    metrics, period_idx, interval_idx, check_time, examined,
                    next_available, next_available_booking >>

\* lines 378-401: find_next_available_slot is entered
SearchStart ==
    /\ pc = "search"
    /\ IF Raises(bookings)
       THEN /\ pc' = "aborted"
            /\ UNCHANGED << booked_intervals, current_date >>
       ELSE /\ booked_intervals' = BookedIntervals(bookings, Len(bookings))
            /\ current_date' = DateOf(analysis_start)
            /\ pc' = "date"
    /\ UNCHANGED << inputVars, callVars, mainVars, dashVars, hours_by_date, bookings,
                    metrics, period_idx, interval_idx, check_time, examined,
                    next_available, next_available_booking >>

\* `current_date += timedelta(days=1)` of line 407 left out: a date without an
\* entry is looked at again and again
ScanDate_NoAdvance ==
    /\ pc = "date"
    /\ IF current_date > MaxDate(analysis_start)
       THEN /\ next_available' = None
            /\ pc' = "report"
            /\ UNCHANGED << current_date, interval_idx >>
       ELSE IF current_date \in DOMAIN hours_by_date
       THEN /\ interval_idx' = 1
            /\ pc' = "interval"
            /\ UNCHANGED << current_date, next_available >>
       ELSE UNCHANGED << current_date, interval_idx, next_available, pc >>
    /\ UNCHANGED << inputVars, callVars, mainVars, dashVars, hours_by_date, bookings,
                    metrics, period_idx, booked_intervals, check_time, examined,
                    next_available_booking >>

\* lines 403-408 and 439: dates without an entry are passed over; the scan stops
\* with None after max_date
ScanDate ==
    /\ pc = "date"
    /\ LET date == NextListedDate(hours_by_date, current_date, MaxDate(analysis_start))
       IN  /\ current_date' = date
           /\ IF date > MaxDate(analysis_start)
              THEN /\ next_available' = None
                   /\ pc' = "report"
                   /\ UNCHANGED interval_idx
              ELSE /\ interval_idx' = 1
                   /\ pc' = "interval"
                   /\ UNCHANGED next_available
    /\ UNCHANGED << inputVars, callVars, mainVars, dashVars, hours_by_date, bookings,
                    metrics, period_idx, booked_intervals, check_time, examined,
                    next_available_booking >>

\* line 411: open_time.date() == current_date
OnCurrentDate(open_time, date) == DateOf(open_time) = date

\* the date's entry taken out of the mapping once its list is exhausted
\* (hours_by_date.pop(date_str)): the mapping is the cached object
EnterInterval_PopsDate ==
    /\ pc = "interval"
    /\ IF interval_idx > Len(hours_by_date[current_date])
       THEN /\ current_date' = current_date + 1
            /\ pc' = "date"
            /\ hours_by_date' = [ d \in DOMAIN hours_by_date \ { current_date } |->
                                    hours_by_date[d] ]
            /\ location_hours_cache' =
                 [ location_hours_cache EXCEPT ![spaces[space_idx]] = hours_by_date' ]
            /\ UNCHANGED << interval_idx, check_time >>
       ELSE LET open_time == hours_by_date[current_date][interval_idx][1]
            IN  /\ IF OnCurrentDate(open_time, current_date)
                   THEN /\ check_time' = FirstCheckTime(Localize(open_time), StartInstant(analysis_start))
                        /\ pc' = "slot"
                        /\ UNCHANGED << current_date, interval_idx >>
                   ELSE /\ interval_idx' = interval_idx + 1
                        /\ UNCHANGED << current_date, check_time, pc >>
                /\ UNCHANGED << hours_by_date, location_hours_cache >>
    /\ UNCHANGED << inputVars, callVars, dashVars, space_idx, results, fetched, bookings,
                    metrics, period_idx, booked_intervals, examined, next_available,
                    next_available_booking >>

\* lines 410-421 and 437: the next operating interval of the date is entered, or
\* the date is left when its list is exhausted
EnterInterval ==
    /\ pc = "interval"
    /\ IF interval_idx > Len(hours_by_date[current_date])
       THEN /\ current_date' = current_date + 1
            /\ pc' = "date"
            /\ UNCHANGED << interval_idx, check_time >>
       ELSE LET open_time == hours_by_date[current_date][interval_idx][1]
            IN  IF OnCurrentDate(open_time, current_date)
                THEN /\ check_time' = FirstCheckTime(Localize(open_time), StartInstant(analysis_start))
                     /\ pc' = "slot"
                     /\ UNCHANGED << current_date, interval_idx >>
                ELSE /\ interval_idx' = interval_idx + 1
                     /\ UNCHANGED << current_date, check_time, pc >>
    /\ UNCHANGED << inputVars, callVars, mainVars, dashVars, hours_by_date, bookings,
                    metrics, period_idx, booked_intervals, examined, next_available,
                    next_available_booking >>

\* lines 423-435: one iteration of the while loop over the slots of the interval
CheckSlot ==
    /\ pc = "slot"
    /\ LET close_time == hours_by_date[current_date][interval_idx][2]
           slot_end   == check_time + Minutes(DurationMinutes(booking_duration_hours))
       IN  IF slot_end <= Localize(close_time)
           THEN /\ examined' = Append(examined, check_time)
                /\ IF IsAvailable(check_time, slot_end, booked_intervals)
                   THEN /\ next_available' = check_time
                        /\ pc' = "report"
                        /\ UNCHANGED << check_time, interval_idx >>
                   ELSE /\ check_time' = check_time + Minutes(15)
                        /\ UNCHANGED << next_available, pc, interval_idx >>
           ELSE /\ interval_idx' = interval_idx + 1
                /\ pc' = "interval"
                /\ UNCHANGED << check_time, examined, next_available >>
    /\ UNCHANGED << inputVars, callVars, mainVars, dashVars, hours_by_date, bookings,
                    metrics, period_idx, booked_intervals, current_date,
                    next_available_booking >>

\* lines 525-531 and 795: the result of the search is rendered, the metrics are
\* returned and main appends them to its results
Report ==
    /\ pc = "report"
    /\ next_available_booking' =
         FormatNextAvailable(
             IF next_available = None THEN None
             ELSE WallClock(next_available,
                            CheckTimeOffset(hours_by_date[current_date][interval_idx][1],
                                            analysis_start)))
    /\ results' = Append(results, [ space                  |-> space_idx,
                                    metrics                |-> metrics,
                                    next_available_booking |-> next_available_booking' ])
    /\ pc' = "done"
    /\ UNCHANGED << inputVars, callVars, dashVars, space_idx, fetched, location_hours_cache,
                    hours_by_date, bookings, metrics, period_idx, booked_intervals,
                    current_date, interval_idx, check_time, examined, next_available >>

Next ==
    \/ GetHours
    \/ ComputePeriod
    \/ SearchStart
    \/ ScanDate
    \/ EnterInterval
    \/ CheckSlot
    \/ Report

Spec == Init /\ [][Next]_vars

-----------------------------------------------------------------------------
(* The state machine: main's loop over the spaces *)

MaxSpaces == 2

Locations == { LOCATION_ID, "loc2" }

\* a booking record whose fromDate is null
NullFromBooking ==
    [ fromDate |-> [ kind |-> "null", wall |-> 0, offset |-> "" ],
      toDate   |-> Timestamp(At(1, 13, 0, 0), "-05:00") ]

\* hours a location may have: none, one day, two days with split hours
MainHoursMappings ==
    { << >>,
      (1 :> HoursOn(1, 1)),
      [ d \in { 1, 8 } |-> IF d = 1 THEN HoursOn(1, 3) ELSE HoursOn(8, 1) ] }

\* a booking at noon of day 1, its timestamps carrying the offset +11:00
NoonBooking == RawBooking(At(1, 12, 0, 0), At(1, 13, 0, 0), "+11:00")

\* a booking that takes the whole of day 1
AllDayBooking == RawBooking(At(1, 0, 0, 0), At(2, 0, 0, 0), "-05:00")

\* bookings a space may have
MainBookingLists ==
    { << >>,
      << BookingPool[4] >>,
      << NoonBooking, BookingPool[4] >>,
      << AllDayBooking >>,
      << NoonBooking, NullFromBooking >> }

\* lines 42 and 723-724: the default of --output is
\* output/space_booking_analysis_YYYYMMDD.csv with the date of the naive
\* datetime.now(), the date in the zone of the machine, read before
\* analysis_start is made of the date in America/Toronto (lines 774-777): the
\* same date, the one before or the one after
OutputDates(start) == { DateOf(start) - 1, DateOf(start), DateOf(start) + 1 }

MainInit ==
    /\ spaces \in UNION { [ 1..n -> Locations ] : n \in 1..MaxSpaces }
    /\ provider_hours \in [ Locations -> MainHoursMappings ]
    /\ provider_bookings \in [ 1..Len(spaces) -> MainBookingLists ]
    /\ analysis_start = At(1, 0, 0, 0)
    /\ start_utcoffset \in StartOffsets(analysis_start)
    /\ analysis_window_weeks = 13
    /\ booking_duration_hours = 100
    /\ output_file \in OutputDates(analysis_start)
    /\ StartOfRun
    /\ pc = "hours"
    /\ DashIdle
    /\ NoCall

\* lines 781-795: the loop moves on to the next space and analyze_space is
\* called anew
NextSpace ==
    /\ pc = "done"
    /\ space_idx < Len(spaces)
    /\ space_idx' = space_idx + 1
    /\ hours_by_date' = << >>
    /\ bookings' = << >>
    /\ metrics' = << >>
    /\ period_idx' = 1
    /\ booked_intervals' = << >>
    /\ current_date' = 0
    /\ interval_idx' = 0
    /\ check_time' = 0
    /\ examined' = << >>
    /\ next_available' = None
    /\ next_available_booking' = [ text |-> "", date |-> 0, hour |-> 0, minute |-> 0 ]
    /\ pc' = "hours"
    /\ UNCHANGED << inputVars, callVars, dashVars, results, fetched, location_hours_cache >>

\* lines 684-687: the row that csv.DictWriter writes for one result record;
\* the position of the space in the input stands for its space_id
CsvRow(result) ==
    [ space_id               |-> result.space,
      location_id            |-> spaces[result.space],
      booking_rate_1week     |-> result.metrics[1].booking_rate,
      metrics                |-> result.metrics,
      next_available_booking |-> result.next_available_booking ]

\* the file of the path output, named by the date the path carries
OutputFile(output, rows) == [ path |-> output, name |-> output, rows |-> rows ]

\* lines 661-705: write_results_to_csv(results, output_file) on the files of
\* the output directory; nothing is written for an empty list, and
\* open(output_file, "w") replaces a file of the same path
write_results_to_csv(files, rows, output) ==
    IF rows = << >> THEN files
    ELSE LET written == OutputFile(output, [ k \in DOMAIN rows |-> CsvRow(rows[k]) ])
         IN  { f \in files : f.path # written.path } \cup { written }

\* lines 797-808: after the last space the results are written
WriteResults ==
    /\ pc = "done"
    /\ space_idx = Len(spaces)
    /\ csv_files' = write_results_to_csv(csv_files, results, output_file)
    /\ pc' = "written"
    /\ UNCHANGED << inputVars, callVars, mainVars, spaceVars, today, time_series_file,
                    file_writes, time_series_data >>

MainNext ==
    \/ Next
    \/ NextSpace
    \/ WriteResults

MainSpec == MainInit /\ [][MainNext]_vars

-----------------------------------------------------------------------------
(* analyze_space on provider data outside the data model: operating intervals
   stored under the key of another date, malformed booking records *)

MaxRawBookings == 2

RawOpenDates == { 1, 2 }

\* the intervals of IntervalLists[k] laid on the date `shift` days from `date`
ShiftedHours(date, k, shift) == HoursOn(date + shift, k)

\* the lists one date key may hold: its own intervals, intervals of the day
\* after or the day before, an interval of the day after followed by its own
RawIntervalLists(date) ==
    { HoursOn(date, 1),
      HoursOn(date, 2),
      ShiftedHours(date, 1, 1),
      ShiftedHours(date, 1, -1),
      ShiftedHours(date, 1, 1) \o HoursOn(date, 3) }

RawHoursMappings ==
    UNION { { f \in [ D -> UNION { RawIntervalLists(d) : d \in D } ] :
                \A d \in D : f[d] \in RawIntervalLists(d) } :
            D \in SUBSET RawOpenDates }

\* a string that is no timestamp, and a value that is no string
BadString == [ kind |-> "bad", wall |-> 0, offset |-> "" ]
Null == [ kind |-> "null", wall |-> 0, offset |-> "" ]

\* two well-formed records, then records without fromDate, without toDate,
\* with an unparsable fromDate and with a null toDate, and a record that ends
\* at the instant it starts
RawBookingPool ==
    << RawBooking(At(1, 12, 0, 0), At(1, 13, 0, 0), "+11:00"),
       RawBooking(At(1, 9, 0, 0), At(1, 10, 30, 0), "-04:00"),
       [ toDate |-> Timestamp(At(1, 13, 0, 0), "-05:00") ],
       [ fromDate |-> Timestamp(At(1, 9, 0, 0), "-05:00") ],
       [ fromDate |-> BadString, toDate |-> Timestamp(At(1, 13, 0, 0), "-05:00") ],
       [ fromDate |-> Timestamp(At(1, 9, 0, 0), "-05:00"), toDate |-> Null ],
       RawBooking(At(1, 10, 0, 0), At(1, 10, 0, 0), "-05:00") >>

RECURSIVE PickRawBookings(_, _)
PickRawBookings(S, i) ==
    IF i > Len(RawBookingPool) THEN << >>
    ELSE (IF i \in S THEN << RawBookingPool[i] >> ELSE << >>) \o PickRawBookings(S, i + 1)

RawBookingLists ==
    { PickRawBookings(S, 1) :
        S \in { T \in SUBSET (1..Len(RawBookingPool)) : Cardinality(T) <= MaxRawBookings } }

\* midnight, and an instant off the minute
RawAnalysisStarts == { At(1, 0, 0, 0), At(1, 9, 7, 30) }

RawInit ==
    /\ spaces = << LOCATION_ID >>
    /\ provider_hours \in { (LOCATION_ID :> h) : h \in RawHoursMappings }
    /\ provider_bookings \in { << b >> : b \in RawBookingLists }
    /\ analysis_start \in RawAnalysisStarts
    /\ start_utcoffset \in StartOffsets(analysis_start)
    /\ output_file = DateOf(analysis_start)
    /\ analysis_window_weeks = 13
    /\ booking_duration_hours \in DurationHours
    /\ StartOfRun
    /\ pc = "hours"
    /\ DashIdle
    /\ NoCall

RawSpec == RawInit /\ [][Next]_vars

-----------------------------------------------------------------------------
(* generate_dashboard.py: update_time_series_data *)

\* A result file of the output directory is [path, name, rows].  path stands
\* for the path of the file as a string: it is a number, and the paths are
\* numbered in the order of the strings, so that sorted() orders the files by
\* it; a file named space_booking_analysis_YYYYMMDD.csv has the day number of
\* its date as path, as these names sort like their dates.  name is the day
\* number that parse_date_from_filename reads from the last part of the file
\* name, or BadName when that part is no date; a row is
\* [space_id, space_name, location_name, booking_rate_1week], the rate in hundredths of a
\* percent or EmptyCell.
BadName == -1
EmptyCell == -1

\* datetime.weekday() of a day number: day 0 is Sunday 2025-01-05, Monday is 0
WeekdayOf(date) == (date + 6) % 7

\* lines 54-60: the date parses and falls on a Monday
is_monday_file(file) == file.name # BadName /\ WeekdayOf(file.name) = 0

\* sorted(): the files of the set in the order of their paths
RECURSIVE SortedFiles(_)
SortedFiles(files) ==
    IF files = {} THEN << >>
    ELSE LET first == CHOOSE f \in files : \A g \in files : f.path <= g.path
         IN  << first >> \o SortedFiles(files \ { first })

\* lines 63-67
get_monday_files(files) == SortedFiles({ f \in files : is_monday_file(f) })

\* lines 165-168 and 177-180
EmptyTimeSeries == [ dates |-> << >>, spaces |-> << >> ]

\* line 193: float(row['booking_rate_1week']) if row['booking_rate_1week'] else 0
RowRate(row) == IF row.booking_rate_1week = EmptyCell THEN 0 ELSE row.booking_rate_1week

\* lines 190-202: one row of a file is entered
AddRow(ts, row) ==
    LET known   == row.space_id \in DOMAIN ts.spaces
        entries == [ id \in DOMAIN ts.spaces \cup { row.space_id } |->
                       IF id = row.space_id /\ ~known
                       THEN [ space_name    |-> row.space_name,
                              location_name |-> row.location_name,
                              data          |-> << >> ]
                       ELSE ts.spaces[id] ]
    IN  [ ts EXCEPT !.spaces =
            [ entries EXCEPT ![row.space_id].data = Append(@, RowRate(row)) ] ]

RECURSIVE AddRows(_, _, _)
AddRows(ts, rows, j) ==
    IF j > Len(rows) THEN ts
    ELSE AddRows(AddRow(ts, rows[j]), rows, j + 1)

\* lines 182-202: the loop over the Monday files
RECURSIVE RebuildLoop(_, _, _)
RebuildLoop(ts, monday_files, i) ==
    IF i > Len(monday_files) THEN ts
    ELSE LET date_str == monday_files[i].name
             seen     == \E k \in DOMAIN ts.dates : ts.dates[k] = date_str
         IN  RebuildLoop(IF seen THEN ts
                         ELSE AddRows([ ts EXCEPT !.dates = Append(@, date_str) ],
                                      monday_files[i].rows, 1),
                         monday_files, i + 1)

\* the test of line 171 with Tuesday taken for Monday
IsMonday_OffByOne(weekday) == weekday = 1

\* line 171: today.weekday() == 0
IsMonday(weekday) == weekday = 0

\* lines 161-168: the stored data, or the empty structure when there is no file
LoadTimeSeries(file) == IF file.exists THEN file.data ELSE EmptyTimeSeries

Row(space_id, space_name, rate) ==
    [ space_id |-> space_id, space_name |-> space_name, location_name |-> "Library",
      booking_rate_1week |-> rate ]

\* the path of space_booking_analysis_latest.csv and of
\* space_booking_analysis_rerun_20250113.csv: a letter sorts after every digit
LatestPath == 1000
RerunPath == 1001

\* result files: of the Mondays 2025-01-06 and 2025-01-13, of the Monday
\* 2025-01-20 with a space the earlier files lack and without theirs, of a
\* Wednesday, one whose name carries no date, and a second file of the Monday
\* 2025-01-13 whose name sorts after the others
CsvFilePool ==
    { [ path |-> 1, name |-> 1,
        rows |-> << Row("101", "Room A", 1250), Row("102", "Room B", EmptyCell) >> ],
      [ path |-> 8, name |-> 8,
        rows |-> << Row("102", "Room B", 5000), Row("101", "Room A", 0) >> ],
      [ path |-> 15, name |-> 15, rows |-> << Row("103", "Room C", 2500) >> ],
      [ path |-> 3, name |-> 3, rows |-> << Row("101", "Room A", 9999) >> ],
      [ path |-> LatestPath, name |-> BadName, rows |-> << Row("103", "Room C", 100) >> ],
      [ path |-> RerunPath, name |-> 8, rows |-> << Row("101", "Room A", 4000) >> ] }

\* the time-series file: absent, written on the first Monday, or older data
StoredFiles ==
    { [ exists |-> FALSE, data |-> EmptyTimeSeries ],
      [ exists |-> TRUE,
        data   |-> RebuildLoop(EmptyTimeSeries,
                               << CHOOSE f \in CsvFilePool : f.path = 1 >>, 1) ],
      [ exists |-> TRUE,
        data   |-> [ dates  |-> << -6 >>,
                     spaces |-> [ id \in { "101" } |->
                                    [ space_name    |-> "Room A",
                                      location_name |-> "Library",
                                      data          |-> << 700 >> ] ] ] ] }

DashInit ==
    /\ today \in 0..6
    /\ csv_files \in SUBSET CsvFilePool
    /\ time_series_file \in StoredFiles
    /\ file_writes = 0
    /\ time_series_data = << >>
    /\ spaces = << >>
    /\ provider_hours = << >>
    /\ provider_bookings = << >>
    /\ analysis_start = 0
    /\ start_utcoffset = EST
    /\ output_file = DateOf(analysis_start)
    /\ analysis_window_weeks = 0
    /\ booking_duration_hours = 0
    /\ StartOfRun
    /\ NoCall
    /\ pc = "dashboard"

\* lines 157-210: update_time_series_data
UpdateTimeSeriesData ==
    /\ pc = "dashboard"
    /\ LET loaded       == LoadTimeSeries(time_series_file)
           monday_files == get_monday_files(csv_files)
       IN  IF IsMonday(today) /\ monday_files # << >>
           THEN /\ time_series_data' = RebuildLoop(EmptyTimeSeries, monday_files, 1)
                /\ time_series_file' = [ exists |-> TRUE, data |-> time_series_data' ]
                /\ file_writes' = file_writes + 1
           ELSE /\ time_series_data' = loaded
                /\ UNCHANGED << time_series_file, file_writes >>
    /\ pc' = "dashboard_done"
    /\ UNCHANGED << inputVars, callVars, mainVars, spaceVars, today, csv_files >>

DashNext == UpdateTimeSeriesData

DashSpec == DashInit /\ [][DashNext]_vars

-----------------------------------------------------------------------------
(* generate_dashboard.py: the days and the colour of a space card *)

GREEN_RGB == << 34, 197, 94 >>
RED_RGB == << 239, 68, 68 >>
MAX_DAYS_FOR_RED == 14

\* int(n / d): the quotient with its fraction dropped
TruncDiv(n, d) == IF n >= 0 THEN n \div d ELSE -((-n) \div d)

\* line 97 left out: the colour keeps changing past MAX_DAYS_FOR_RED
interpolate_color_NoUpperClamp(days) ==
    IF days <= 0 THEN GREEN_RGB
    ELSE [ c \in 1..3 |->
             TruncDiv(GREEN_RGB[c] * MAX_DAYS_FOR_RED + (RED_RGB[c] - GREEN_RGB[c]) * days,
                      MAX_DAYS_FOR_RED) ]

\* lines 85-106: the channels of the string rgb(r, g, b); ratio is
\* days / MAX_DAYS_FOR_RED
interpolate_color(days) ==
    IF days <= 0 THEN GREEN_RGB
    ELSE IF days >= MAX_DAYS_FOR_RED THEN RED_RGB
    ELSE [ c \in 1..3 |->
             TruncDiv(GREEN_RGB[c] * MAX_DAYS_FOR_RED + (RED_RGB[c] - GREEN_RGB[c]) * days,
                      MAX_DAYS_FOR_RED) ]

\* a cell of the next_available_booking column that the reader left without a
\* value
NullCell == [ null |-> TRUE ]

\* a cell that holds a text other than one written by strftime, as the sequence
\* of its characters
TextCell(chars) == [ text |-> "", chars |-> chars, date |-> 0, hour |-> 0, minute |-> 0 ]

\* a cell written as "%Y-%m-%d"
DateCell(date) == [ text |-> "%Y-%m-%d", date |-> date, hour |-> 0, minute |-> 0 ]

UpperCase ==
    << "A", "B", "C", "D", "E", "F", "G", "H", "I", "J", "K", "L", "M",
       "N", "O", "P", "Q", "R", "S", "T", "U", "V", "W", "X", "Y", "Z" >>
LowerCase ==
    << "a", "b", "c", "d", "e", "f", "g", "h", "i", "j", "k", "l", "m",
       "n", "o", "p", "q", "r", "s", "t", "u", "v", "w", "x", "y", "z" >>

\* str.lower() on one character of the ASCII alphabet.  The column holds what
\* main writes, a strftime of digits or "No availability", and a cell is taken
\* to be ASCII text; what str.lower() makes of other alphabets (lines of the
\* Unicode tables, and for a capital sigma its neighbours) is not modelled.
LowerChar(c) ==
    IF \E i \in DOMAIN UpperCase : UpperCase[i] = c
    THEN LowerCase[CHOOSE i \in DOMAIN UpperCase : UpperCase[i] = c]
    ELSE c

\* str.lower() of an ASCII text: every character of the text is lowered
Lower(chars) == [ i \in DOMAIN chars |-> LowerChar(chars[i]) ]

\* line 112: the texts that stand for no availability
UnavailableTexts == { << "n", "o", "n", "e" >>, << "n", "/", "a" >>, << >> }

\* datetime.strptime(value, format): the date, or ValueError
strptime(value, format) ==
    IF /\ value.text = format
       /\ value.hour \in 0..23
       /\ value.minute \in 0..59
    THEN [ raised |-> "", date |-> value.date ]
    ELSE [ raised |-> "ValueError", date |-> 0 ]

\* lines 111-123: the body of the try statement
DaysUntilBody(value, now) ==
    IF "text" \notin DOMAIN value
    THEN [ raised |-> "", days |-> MAX_DAYS_FOR_RED + 1 ]
    ELSE IF /\ "chars" \in DOMAIN value
            /\ (value.chars = << >> \/ Lower(value.chars) \in UnavailableTexts)
    THEN [ raised |-> "", days |-> MAX_DAYS_FOR_RED + 1 ]
    ELSE LET first  == strptime(value, "%Y-%m-%d %H:%M")
             second == strptime(value, "%Y-%m-%d")
             parsed == IF first.raised = "" THEN first ELSE second
         IN  IF parsed.raised # ""
             THEN [ raised |-> parsed.raised, days |-> 0 ]
             ELSE [ raised |-> "", days |-> Max(0, parsed.date - now) ]

\* the handler of line 124 catching AttributeError alone
HandledByDaysUntil_AttributeOnly(exception) == exception = "AttributeError"

\* line 124: except (ValueError, AttributeError)
HandledByDaysUntil(exception) == exception \in { "ValueError", "AttributeError" }

\* lines 109-125
calculate_days_until(value, now) ==
    LET body == DaysUntilBody(value, now)
    IN  IF body.raised = "" THEN body
        ELSE IF HandledByDaysUntil(body.raised)
        THEN [ raised |-> "", days |-> MAX_DAYS_FOR_RED + 1 ]
        ELSE body

\* lines 279-282: the label of the card
DaysText(days_until) ==
    IF days_until = 0 THEN [ n |-> None, text |-> "Today" ]
    ELSE IF days_until = 1 THEN [ n |-> None, text |-> "Tomorrow" ]
    ELSE IF days_until < MAX_DAYS_FOR_RED THEN [ n |-> days_until, text |-> "days" ]
    ELSE [ n |-> None, text |-> "14+ days" ]

MaxDays == 16

\* the days interpolate_color is called with
DaysRange == (0 - 2)..MaxDays

\* the dates datetime.now() falls on
NowDates == { 1, 3, 20 }

\* the cells of the next_available_booking column
CellPool ==
    { FormatNextAvailable(None), FormatNextAvailable(At(3, 9, 0, 0)),
      FormatNextAvailable(At(4, 13, 45, 0)), FormatNextAvailable(At(17, 9, 0, 0)),
      FormatNextAvailable(At(60, 10, 30, 0)),
      NullCell, TextCell(<< >>), TextCell(<< "n", "o", "n", "e" >>),
      TextCell(<< "N", "o", "n", "e" >>), TextCell(<< "N", "O", "N", "E" >>),
      TextCell(<< "N", "/", "A" >>), TextCell(<< "n", "/", "a" >>),
      TextCell(<< "N", "/", "a" >>), TextCell(<< "S", "o", "o", "n" >>),
      DateCell(2), DateCell(10), DateCell(17),
      [ text |-> "%Y-%m-%d %H:%M", date |-> 5, hour |-> 24, minute |-> 0 ] }

\* lines 136-146 and 279-282: one row of the results file becomes a card
LoadCurrentRow ==
    /\ pc = "call"
    /\ call.fn = "load_current_data"
    /\ LET outcome == calculate_days_until(call.next_available, call.now)
       IN  returned' =
             IF outcome.raised # ""
             THEN [ raised |-> outcome.raised ]
             ELSE [ raised     |-> "",
                    days_until |-> outcome.days,
                    color      |-> interpolate_color(outcome.days),
                    days_text  |-> DaysText(outcome.days) ]
    /\ pc' = "called"
    /\ UNCHANGED << inputVars, mainVars, spaceVars, dashVars, call >>

\* lines 85-106: interpolate_color is called
InterpolateColor ==
    /\ pc = "call"
    /\ call.fn = "interpolate_color"
    /\ returned' = interpolate_color(call.days)
    /\ pc' = "called"
    /\ UNCHANGED << inputVars, mainVars, spaceVars, dashVars, call >>

-----------------------------------------------------------------------------
(* get_location_hours on a response of several location entries *)

\* the lid of a location entry: a number, a string, or no lid at all
IntLid(n) == [ kind |-> "int", int |-> n, str |-> "" ]
StrLid(s) == [ kind |-> "str", int |-> 0, str |-> s ]
NoLid == [ kind |-> "missing", int |-> 0, str |-> "" ]

\* str(location.get("lid"))
Str(lid) ==
    CASE lid.kind = "int" -> ToString(lid.int)
      [] lid.kind = "str" -> lid.str
      [] OTHER -> "None"

\* a time of day written as "%I:%M%p"
ClockTime(hour12, minute, pm) == [ hour12 |-> hour12, minute |-> minute, pm |-> pm ]

\* an hours entry without this time
NoTime == [ hour12 |-> 0, minute |-> 0, pm |-> "" ]

\* strptime accepts the time: %I is an hour of 1..12, %M a minute of 0..59 and
\* %p one of AM and PM; for another time it raises ValueError
ValidClockTime(time) ==
    /\ time.hour12 \in 1..12
    /\ time.minute \in 0..59
    /\ time.pm \in { "AM", "PM" }

\* lines 216-221: strptime(f"{date_str} {time}", "%Y-%m-%d %I:%M%p")
ParseClockTime(date, time) ==
    At(date, (time.hour12 % 12) + (IF time.pm = "PM" THEN 12 ELSE 0), time.minute, 0)

\* lines 210-226: the time ranges of one day
RECURSIVE TimeRanges(_, _, _)
TimeRanges(date, hours_list, i) ==
    IF i > Len(hours_list) THEN << >>
    ELSE LET hours == hours_list[i]
             rest  == TimeRanges(date, hours_list, i + 1)
         IN  IF hours.from # NoTime /\ hours.to # NoTime
             THEN << << ParseClockTime(date, hours.from), ParseClockTime(date, hours.to) >> >>
                  \o rest
             ELSE rest

\* a day without data
NullDay == [ status |-> "", hours |-> << >>, null |-> TRUE ]

\* line 205: the day has data and its status is "open"
IsOpenDay(day_data) ==
    /\ "null" \notin DOMAIN day_data
    /\ "status" \in DOMAIN day_data
    /\ day_data.status = "open"

\* line 208: day_data.get("hours", [])
HoursList(day_data) == IF "hours" \in DOMAIN day_data THEN day_data.hours ELSE << >>

\* lines 215-221: an entry of an open day has both times and strptime raises
\* ValueError for one of them
DatesRaise(dates_dict) ==
    \E d \in DOMAIN dates_dict :
        /\ IsOpenDay(dates_dict[d])
        /\ \E i \in DOMAIN HoursList(dates_dict[d]) :
               LET hours == HoursList(dates_dict[d])[i]
               IN  /\ hours.from # NoTime /\ hours.to # NoTime
                   /\ ~(ValidClockTime(hours.from) /\ ValidClockTime(hours.to))

\* lines 204-229: the hours of the dates of one location entry
DatesHours(dates_dict) ==
    LET listed == { d \in DOMAIN dates_dict :
                      /\ IsOpenDay(dates_dict[d])
                      /\ TimeRanges(d, HoursList(dates_dict[d]), 1) # << >> }
    IN  [ d \in listed |-> TimeRanges(d, HoursList(dates_dict[d]), 1) ]

\* a loop over data that breaks at the first entry of the set: its position, or
\* 0 when the loop ends without one
FirstOf(positions) ==
    IF positions = {} THEN 0
    ELSE CHOOSE i \in positions : \A j \in positions : i <= j

\* lines 193-197: the first location with dates
FirstWithDates(data) == FirstOf({ i \in DOMAIN data : "dates" \in DOMAIN data[i] })

\* the lid is not looked at: the first location with dates is taken
TargetLocation_FirstWithDates(data, location_id) == FirstWithDates(data)

\* lines 185-197: the position of target_location in data, 0 for None
TargetLocation(data, location_id) ==
    LET matching == FirstOf({ i \in DOMAIN data : Str(data[i].lid) = location_id })
    IN  IF matching # 0 THEN matching ELSE FirstWithDates(data)

\* lines 179-240: the hours returned, or the LibCalAPIError raised for the
\* ValueError of a time that does not parse
get_location_hours(data, location_id) ==
    LET target == TargetLocation(data, location_id)
    IN  IF target = 0 \/ "dates" \notin DOMAIN data[target]
        THEN [ raised |-> "", hours |-> << >> ]
        ELSE IF DatesRaise(data[target].dates)
        THEN [ raised |-> "LibCalAPIError", hours |-> << >> ]
        ELSE [ raised |-> "", hours |-> DatesHours(data[target].dates) ]

OpenDay(hours_list) == [ status |-> "open", hours |-> hours_list ]
ClosedDay == [ status |-> "closed", hours |-> << >> ]
FromTo(from, to) == [ from |-> from, to |-> to ]

\* the location entries a response is made of: a parent, its child, a location
\* without dates, an entry without lid, and a location with a time that is no
\* time of day
LocationPool ==
    << [ lid   |-> IntLid(10),
         dates |-> [ d \in { 1, 2 } |->
                       OpenDay(<< FromTo(ClockTime(9, 0, "AM"), ClockTime(5, 0, "PM")) >>) ] ],
       [ lid   |-> StrLid("20"),
         dates |-> [ d \in { 1, 2, 3, 4 } |->
                       IF d = 1
                       THEN OpenDay(<< FromTo(ClockTime(10, 0, "AM"), ClockTime(12, 0, "PM")),
                                       FromTo(ClockTime(1, 30, "PM"), ClockTime(12, 0, "AM")) >>)
                       ELSE IF d = 2 THEN ClosedDay
                       ELSE IF d = 3
                       THEN OpenDay(<< FromTo(NoTime, ClockTime(5, 0, "PM")) >>)
                       ELSE [ status |-> "open" ] ] ],
       [ lid   |-> IntLid(30) ],
       [ lid   |-> NoLid,
         dates |-> [ d \in { 8, 9 } |->
                       IF d = 8
                       THEN OpenDay(<< FromTo(ClockTime(12, 0, "PM"), ClockTime(11, 30, "PM")) >>)
                       ELSE NullDay ] ],
       [ lid   |-> IntLid(40),
         dates |-> [ d \in { 1, 2 } |->
                       IF d = 1
                       THEN OpenDay(<< FromTo(ClockTime(9, 0, "AM"), ClockTime(5, 0, "PM")) >>)
                       ELSE OpenDay(<< FromTo(ClockTime(13, 0, "PM"), ClockTime(5, 0, "PM")) >>) ] ] >>

MaxLocations == 3

\* the responses: up to MaxLocations different entries of the pool, in any order
Responses ==
    LET picks == UNION { [ 1..n -> DOMAIN LocationPool ] : n \in 0..MaxLocations }
    IN  { [ i \in DOMAIN p |-> LocationPool[p[i]] ] :
            p \in { q \in picks : \A i, j \in DOMAIN q : i # j => q[i] # q[j] } }

\* the location_id of the request
RequestedLocations == { "10", "20", "30", "40" }

\* lines 152-231: get_location_hours is called
GetLocationHours ==
    /\ pc = "call"
    /\ call.fn = "get_location_hours"
    /\ returned' = get_location_hours(call.data, call.location_id)
    /\ pc' = "called"
    /\ UNCHANGED << inputVars, mainVars, spaceVars, dashVars, call >>

-----------------------------------------------------------------------------
(* The state machine: one call of a function *)

CallInit ==
    /\ call \in { [ fn |-> "interpolate_color", days |-> d ] : d \in DaysRange }
          \cup { [ fn |-> "load_current_data", next_available |-> c, now |-> n ] :
                   c \in CellPool, n \in NowDates }
          \cup { [ fn |-> "get_location_hours", data |-> r, location_id |-> l ] :
                   r \in Responses, l \in RequestedLocations }
    /\ returned = << >>
    /\ spaces = << >>
    /\ provider_hours = << >>
    /\ provider_bookings = << >>
    /\ analysis_start = 0
    /\ start_utcoffset = EST
    /\ output_file = DateOf(analysis_start)
    /\ analysis_window_weeks = 0
    /\ booking_duration_hours = 0
    /\ StartOfRun
    /\ DashIdle
    /\ pc = "call"

CallNext ==
    \/ LoadCurrentRow
    \/ InterpolateColor
    \/ GetLocationHours

CallSpec == CallInit /\ [][CallNext]_vars

-----------------------------------------------------------------------------
(* analyze_space as a process that keeps running until it returns *)

\* --duration 0 is accepted along with the other durations, and so are 2.05,
\* which int(duration_hours * 60) makes 122 minutes, and the negative -0.07
\* (-4 minutes) and -1.00
FairDurationHours == DurationHours \cup { 0, 205, -7, -100 }

\* no hours at all, one day, split hours, two days a week apart, a day past the
\* sixteen weeks of the search
FairHoursMappings ==
    { << >>,
      (1 :> HoursOn(1, 1)),
      (1 :> HoursOn(1, 3)),
      [ d \in { 1, 8 } |-> IF d = 1 THEN HoursOn(1, 2) ELSE HoursOn(8, 1) ],
      [ d \in { 1, 114 } |-> HoursOn(d, 1) ],
      (114 :> HoursOn(114, 1)) }

\* no booking, day 1 taken whole, two bookings on day 1, days 1 and 8 taken whole
FairBookingLists ==
    { << >>,
      << AllDayBooking >>,
      << NoonBooking, BookingPool[4] >>,
      << RawBooking(At(8, 0, 0, 0), At(9, 0, 0, 0), "-05:00"), AllDayBooking >> }

FairInit ==
    /\ spaces = << LOCATION_ID >>
    /\ provider_hours \in { (LOCATION_ID :> h) : h \in FairHoursMappings }
    /\ provider_bookings \in { << b >> : b \in FairBookingLists }
    /\ analysis_start \in AnalysisStarts
    /\ start_utcoffset \in StartOffsets(analysis_start)
    /\ output_file = DateOf(analysis_start)
    /\ analysis_window_weeks = 13
    /\ booking_duration_hours \in FairDurationHours
    /\ StartOfRun
    /\ DashIdle
    /\ NoCall
    /\ pc = "hours"

\* the interpreter keeps executing the statements of analyze_space: a step that
\* can be taken is taken
FairSpec == FairInit /\ [][Next]_vars /\ WF_vars(Next)

-----------------------------------------------------------------------------
(* Vocabulary of the properties *)

\* the sum of f over the set S of arguments
RECURSIVE SumFn(_, _)
SumFn(f, S) ==
    IF S = {} THEN 0
    ELSE LET x == CHOOSE y \in S : TRUE
         IN  f[x] + SumFn(f, S \ {x})

\* the length of a candidate slot, in seconds
SlotLength == Minutes(DurationMinutes(booking_duration_hours))

\* the parsed (from, to) pairs of the raw bookings, by position in the list
Booked == [ i \in 1..Len(bookings) |-> ParseBooking(bookings[i]) ]

\* the operating intervals of the mapping, as <<date key, position>>
ListedIntervals ==
    UNION { { << d, i >> : i \in 1..Len(hours_by_date[d]) } : d \in DOMAIN hours_by_date }

\* the instants at which an operating interval opens and closes, and the
\* calendar date of its open time
OpenOf(iv) == Localize(hours_by_date[iv[1]][iv[2]][1])
CloseOf(iv) == Localize(hours_by_date[iv[1]][iv[2]][2])
OpenDateOf(iv) == DateOf(hours_by_date[iv[1]][iv[2]][1])

\* the instant of the analysis start
Start == StartInstant(analysis_start)

\* the starts on the 15-minute grid inside an operating interval whose slot
\* ends at or before the interval's close
GridStarts(iv) ==
    { s \in { ((OpenOf(iv) \div 900) + k) * 900 :
                k \in 0..(((CloseOf(iv) - OpenOf(iv)) \div 900) + 1) } :
        OpenOf(iv) <= s /\ s + SlotLength <= CloseOf(iv) }

\* the candidate slots of the search horizon, from the search start on
CandidateSlots ==
    { s \in UNION { GridStarts(iv) :
                      iv \in { x \in ListedIntervals :
                                 /\ x[1] >= DateOf(analysis_start)
                                 /\ x[1] <= MaxDate(analysis_start) } } :
        s >= Start }

\* no booking overlaps the slot [s, s + duration)
SlotFree(s) ==
    \A i \in DOMAIN Booked :
        ~(s < Booked[i][2] /\ Booked[i][1] < s + SlotLength)

\* no booking overlaps the buffered window [s - b, s + duration + b)
BufferedFree(s) ==
    \A i \in DOMAIN Booked :
        ~(s - Minutes(BOOKING_BUFFER_MINUTES) < Booked[i][2]
          /\ Booked[i][1] < s + SlotLength + Minutes(BOOKING_BUFFER_MINUTES))

Found == pc = "done" /\ next_available # None

\* the cutoff of period p as the reading of its wall clock, which carries the
\* offset of the analysis start; the cutoff instant; the last second of the
\* cutoff's calendar date on that clock, as an instant
CutoffClock(p) == Min(analysis_start + PeriodDelta(p),
                      analysis_start + Weeks(analysis_window_weeks))
Cutoff(p) == StartInstant(CutoffClock(p))
CutoffDateEnd(p) == StartInstant(At(DateOf(CutoffClock(p)), 23, 59, 59))

Periods == 1..NumPeriods

-----------------------------------------------------------------------------
(* C1 - C4: the slot returned by find_next_available_slot *)

\* C1: the slot find_next_available_slot returns is the chronologically
\* earliest candidate slot that no booking overlaps: no candidate slot of the
\* horizon (a 15-minute-grid start inside an operating interval, ending at or
\* before its close) is free and starts earlier than the returned one.
C1_EarliestAvailable ==
    Found => \A s \in CandidateSlots : SlotFree(s) => s >= next_available

\* C2: a candidate slot is treated as available exactly when no booking
\* overlaps its window widened by the 15-minute buffer on both sides: every
\* slot the search tested was accepted iff its buffered window is free.
C2_BufferedAvailability ==
    \A i \in 1..Len(examined) :
        (next_available = examined[i]) <=> BufferedFree(examined[i])

\* C3: the returned slot lies inside the operating interval it was generated
\* from: it starts at or after the open time and ends at or before the close.
C3_SlotInsideInterval ==
    Found =>
        LET iv == << current_date, interval_idx >>
        IN  OpenOf(iv) <= next_available /\ next_available + SlotLength <= CloseOf(iv)

-----------------------------------------------------------------------------
(* C5 - C10: the period metrics *)

\* the seconds of booking i that fall between analysis_start and the last
\* second of the cutoff date of period p
ClippedSeconds(i, p) ==
    LET from == Max(Booked[i][1], Start)
        to   == Min(Booked[i][2], CutoffDateEnd(p))
    IN  IF from < to THEN to - from ELSE 0

\* the booked seconds of period p, summed over the bookings
BookedSeconds(p) ==
    SumFn([ i \in DOMAIN Booked |-> ClippedSeconds(i, p) ], DOMAIN Booked)

\* the operating intervals listed under the dates from the analysis start's
\* date through the cutoff's date
IntervalsThroughCutoffDate(p) ==
    { iv \in ListedIntervals :
        iv[1] >= DateOf(analysis_start) /\ iv[1] <= DateOf(CutoffClock(p)) }

\* the summed length, in seconds, of a set of operating intervals
OpenSeconds(S) == SumFn([ iv \in S |-> CloseOf(iv) - OpenOf(iv) ], S)

\* C5 as stated: within one run the period metrics never decrease from a
\* shorter window to a longer one (1week, 2weeks, 1month, 2months, 3months):
\* hours available, hours booked and booking count, for every hours mapping.
\* (Hours from 7:00am to 12:00am on a date of the longer window add a negative
\* duration to its hours available.)
C5_PeriodsMonotone ==
    pc = "done" =>
        \A i, j \in DOMAIN metrics :
            i < j =>
                /\ metrics[i].total_hours_available <= metrics[j].total_hours_available
                /\ metrics[i].total_hours_booked <= metrics[j].total_hours_booked
                /\ metrics[i].booking_count <= metrics[j].booking_count

\* the candidate slots of period p: the slots on the grid that start before
\* the cutoff
PeriodSlots(p) == { s \in CandidateSlots : s < Cutoff(p) }

\* the slot-capacity rate of period p, in hundredths of a percent
SlotRate(p) ==
    LET total  == Cardinality(PeriodSlots(p))
        booked == Cardinality({ s \in PeriodSlots(p) : ~BufferedFree(s) })
    IN  IF total = 0 THEN 0 ELSE RoundDiv(booked * 10000, total)

\* C6 as stated: booking_rate is the share of the period's candidate slots that
\* fail the availability check (a slot-capacity estimate), times 100.
C6_SlotCapacityRate ==
    pc = "done" => \A p \in Periods : metrics[p].booking_rate = SlotRate(p)

\* C6, amended: booking_rate is the booked time of the period (the bookings'
\* durations clipped to the period) divided by its open time (the summed
\* lengths of its operating intervals), times 100 and rounded to two decimals;
\* it is 0 when the open time is not positive (total_hours > 0 is the test):
\* when the period has no open time, and when closes that read before their
\* opens bring the sum to zero or below.
C6_HoursRate ==
    pc = "done" =>
        \A p \in Periods :
            LET open   == OpenSeconds(IntervalsThroughCutoffDate(p))
                booked == BookedSeconds(p)
                diff   == metrics[p].booking_rate * open - booked * 10000
            IN  IF open <= 0 THEN metrics[p].booking_rate = 0
                ELSE 2 * diff <= open /\ -2 * diff <= open

\* a finished run with a period whose hours-based rate is positive and differs
\* from its slot-capacity rate, and a longer period whose total hours are
\* negative and whose rate is 0 although hours are booked
C6_Witness ==
    /\ pc = "done"
    /\ \E p \in Periods :
          /\ metrics[p].booking_rate > 0
          /\ metrics[p].booking_rate # SlotRate(p)
          /\ PeriodSlots(p) # {}
    /\ \E p \in Periods :
          /\ metrics[p].total_hours_available < 0
          /\ metrics[p].total_hours_booked > 0
          /\ metrics[p].booking_rate = 0

\* C7 as stated: hours_available of a window counts only capacity that starts
\* strictly before the window's cutoff instant; operating hours that begin at
\* or after the cutoff contribute nothing.
C7_HoursBeforeCutoff ==
    pc = "done" =>
        \A p \in Periods :
            metrics[p].total_hours_available <=
                RoundHours(<< OpenSeconds({ iv \in ListedIntervals : OpenOf(iv) < Cutoff(p) }) >>)

\* C7, amended: hours_available of a window is the summed length of all
\* operating intervals listed under the calendar dates from the analysis
\* start's date through the cutoff's date, the cutoff's date included in full.
C7_HoursThroughCutoffDate ==
    pc = "done" =>
        \A p \in Periods :
            metrics[p].total_hours_available =
                RoundHours(<< OpenSeconds(IntervalsThroughCutoffDate(p)) >>)

\* a finished run with a window that counts an interval of the cutoff's date
\* which opens at or after the cutoff
C7_Witness ==
    /\ pc = "done"
    /\ \E p \in Periods :
          /\ metrics[p].total_hours_available > 0
          /\ \E iv \in IntervalsThroughCutoffDate(p) : OpenOf(iv) >= Cutoff(p)

\* C8 as stated: booking_count of a period is the number of bookings whose
\* start is strictly before the period's cutoff instant.
C8_CountStartsBeforeCutoff ==
    pc = "done" =>
        \A p \in Periods :
            metrics[p].booking_count =
                Cardinality({ i \in DOMAIN Booked : Booked[i][1] < Cutoff(p) })

\* C8, amended: booking_count of a period is the number of bookings that end
\* after their start and after analysis_start and that start before 23:59:59
\* of the cutoff's calendar date, read with the UTC offset of analysis_start.
C8_CountThroughCutoffDate ==
    pc = "done" =>
        \A p \in Periods :
            metrics[p].booking_count =
                Cardinality({ i \in DOMAIN Booked :
                                /\ Booked[i][1] < Booked[i][2]
                                /\ Booked[i][2] > Start
                                /\ Booked[i][1] < CutoffDateEnd(p) })

\* a finished run with a period that counts a booking starting at or after its
\* cutoff and leaves out a booking that starts before the cutoff
C8_Witness ==
    /\ pc = "done"
    /\ \E p \in Periods :
          /\ metrics[p].booking_count = 1
          /\ \E i \in DOMAIN Booked :
                Booked[i][1] >= Cutoff(p) /\ Booked[i][1] < CutoffDateEnd(p)
          /\ \E i \in DOMAIN Booked : Booked[i][2] <= Start

\* the bookings at the positions of bks that satisfy Keep, in order
RECURSIVE KeepBookings(_, _, _)
KeepBookings(bks, keep, i) ==
    IF i > Len(bks) THEN << >>
    ELSE (IF keep[i] THEN << bks[i] >> ELSE << >>) \o KeepBookings(bks, keep, i + 1)

\* the booked hours and booking count of period p computed from the list bks
BookedMetrics(bks, p) ==
    LET booked == calculate_booked_hours(bks, analysis_start, CutoffClock(p))
    IN  << RoundHours(booked[1]), booked[2] >>

\* the end of the analysis horizon, as an instant
HorizonEnd == StartInstant(analysis_start + Weeks(analysis_window_weeks))

\* the bookings that lie entirely outside [analysis_start, horizon end)
OutsideHorizon ==
    [ i \in DOMAIN Booked |-> Booked[i][2] <= Start \/ Booked[i][1] >= HorizonEnd ]

\* the metrics of every period are those of the list without the bookings
\* marked in outside
AddNothing(outside) ==
    \A p \in Periods :
        << metrics[p].total_hours_booked, metrics[p].booking_count >>
            = BookedMetrics(
                KeepBookings(bookings, [ i \in DOMAIN Booked |-> ~outside[i] ], 1), p)

\* C9 as stated: a booking entirely outside [analysis_start, analysis_start +
\* window weeks) adds nothing to hours booked or booking count of any period:
\* the metrics equal those of the list without such bookings.
C9_OutsideHorizon ==
    pc = "done" => AddNothing(OutsideHorizon)

\* the last second of the calendar date on which the analysis window ends, on
\* the clock of the analysis start, as an instant
HorizonDateEnd ==
    StartInstant(At(DateOf(analysis_start + Weeks(analysis_window_weeks)), 23, 59, 59))

\* the bookings that end at or before analysis_start or start at or after
\* 23:59:59 of the date on which the analysis window ends
OutsideThroughEndDate ==
    [ i \in DOMAIN Booked |->
        Booked[i][2] <= Start \/ Booked[i][1] >= HorizonDateEnd ]

\* the bookings that start at or after the horizon end, on its calendar date
\* before 23:59:59, and end after they start
OnHorizonDate ==
    { i \in DOMAIN Booked :
        /\ Booked[i][1] >= HorizonEnd
        /\ Booked[i][1] < HorizonDateEnd
        /\ Booked[i][1] < Booked[i][2] }

\* the periods that end with the horizon: those at least as long as the window
ClampedPeriods == { p \in Periods : PeriodDelta(p) >= Weeks(analysis_window_weeks) }

\* the longest period, 3months, is 90 days: a window of 13 weeks or more ends
\* after the last second of the date on which every period ends
LongWindow == Weeks(analysis_window_weeks) > PeriodDelta(NumPeriods)

\* C9, amended: a booking that ends at or before analysis_start, or starts at
\* or after 23:59:59 of the calendar date on which the analysis window ends
\* (read with the UTC offset of analysis_start), adds nothing to hours booked
\* or booking count of any period. With a window of 13 weeks or more the same
\* holds of every booking that starts at or after the horizon end. With a
\* shorter window a booking that starts at or after the horizon end but before
\* 23:59:59 of that date, and ends after it starts, is counted in every period
\* at least as long as the window: it adds one to the booking count and its
\* seconds up to 23:59:59 of that date to the hours booked.
C9_OutsideThroughEndDate ==
    pc = "done" =>
        /\ AddNothing(OutsideThroughEndDate)
        /\ LongWindow => AddNothing(OutsideHorizon)
        /\ ~LongWindow =>
              \A i \in OnHorizonDate : \A p \in ClampedPeriods :
                  LET others == KeepBookings(bookings,
                                             [ k \in DOMAIN Booked |-> k # i ], 1)
                      seconds == Min(Booked[i][2], HorizonDateEnd) - Booked[i][1]
                  IN  /\ metrics[p].booking_count = BookedMetrics(others, p)[2] + 1
                      /\ seconds > 0
                      /\ ClippedSeconds(i, p) = seconds
                      /\ metrics[p].total_hours_booked = RoundHours(<< BookedSeconds(p) >>)

\* a finished run of a 1-week window with a booking before the analysis start,
\* a booking after the end date of the window and a booking late on the end
\* date, after the horizon end, which alone is counted, in every period
C9_Witness ==
    /\ pc = "done"
    /\ ~LongWindow
    /\ \E i \in DOMAIN Booked : Booked[i][2] <= Start
    /\ \E i \in DOMAIN Booked : Booked[i][1] >= HorizonDateEnd
    /\ OnHorizonDate # {}
    /\ \A p \in Periods :
          /\ metrics[p].booking_count = 1
          /\ metrics[p].total_hours_booked > 0

\* C10: a period with no operating hours - no date from the analysis start's
\* date through the cutoff's date has an entry in the hours mapping - reports
\* hours available 0 and booking rate 0, whatever bookings exist.
C10_NoHoursZeroRate ==
    pc = "done" =>
        \A p \in Periods :
            IntervalsThroughCutoffDate(p) = {} =>
                /\ metrics[p].total_hours_available = 0
                /\ metrics[p].booking_rate = 0

\* a finished run whose first period has bookings and no operating hours while
\* the mapping has hours later on
C10_Witness ==
    /\ pc = "done"
    /\ IntervalsThroughCutoffDate(1) = {}
    /\ metrics[1].booking_count > 0
    /\ metrics[1].total_hours_booked > 0
    /\ metrics[NumPeriods].total_hours_available > 0

-----------------------------------------------------------------------------
(* C11 - C13: what find_next_available_slot may return *)

\* C11: find_next_available_slot returns None exactly when no candidate slot of
\* the search horizon is available (every candidate is blocked by a booking, or
\* there is no candidate at all): it never returns None while an available
\* candidate exists, and whenever none exists it returns None.
C11_NoneIffNoCandidate ==
    pc = "done" =>
        (next_available = None <=> \A s \in CandidateSlots : ~SlotFree(s))

\* C12: a returned slot never lies on a calendar date that has no entry in the
\* hours mapping, also when a date's entry holds an operating interval that
\* opens on another date.
C12_SlotDateListed ==
    Found => next_available_booking.date \in DOMAIN hours_by_date

\* the returned slot is the floored first check_time of an interval whose
\* effective opening (the later of open time and start instant) is off the grid
OffGridOpeningUsed ==
    \E iv \in ListedIntervals :
        /\ Max(OpenOf(iv), Start) % 900 # 0
        /\ next_available = FloorToIncrement(Max(OpenOf(iv), Start))

\* C13: every returned slot starts on the 15-minute grid: its second is 0 and
\* its minute is one of 0, 15, 30, 45, whatever the open times and the start
\* instant are.
C13_SlotOnGrid ==
    Found =>
        /\ next_available % 60 = 0
        /\ MinuteOf(next_available) \in BOOKING_TIME_INCREMENTS

C13_Witness ==
    Found /\ OffGridOpeningUsed /\ analysis_start % 60 # 0

-----------------------------------------------------------------------------
(* C14: malformed booking records *)

\* the records of the list that parse, in list order
WellFormed(bks) == SelectSeq(bks, LAMBDA b : BookingOutcome(b) = "ok")

\* C14: a malformed or incomplete booking record (a missing fromDate or
\* toDate, a value that is not a string, an unparsable timestamp) is skipped
\* without raising by calculate_booked_hours and by find_next_available_slot,
\* and what they compute equals what they compute on the list without the
\* malformed records.
C14_MalformedSkipped ==
    /\ pc # "aborted"
    /\ pc \in { "date", "interval", "slot", "report", "done" } =>
           booked_intervals = BookedIntervals(WellFormed(bookings),
                                              Len(WellFormed(bookings)))
    /\ pc = "done" =>
           \A p \in Periods :
               metrics[p] = PeriodMetrics(hours_by_date, WellFormed(bookings),
                                          analysis_start, analysis_window_weeks, p)

-----------------------------------------------------------------------------
(* C17: the conflict test *)

\* the ranges [a_start, a_end) and [b_start, b_end) have an instant of
\* positive length in common
SharePositiveTime(a_start, a_end, b_start, b_end) ==
    Max(a_start, b_start) < Min(a_end, b_end)

\* the ranges meet at an endpoint
Touching(a_start, a_end, b_start, b_end) == a_end = b_start \/ b_end = a_start

\* C17: the search treats a slot and a booking as in conflict exactly when the
\* two half-open ranges share positive time (a_start < b_end and
\* b_start < a_end): every tested slot was accepted iff it shares no positive
\* time with any booking, so a slot that only touches a booking at an endpoint
\* is accepted.
C17_StrictOverlap ==
    \A i \in 1..Len(examined) :
        (next_available = examined[i]) <=>
            \A j \in DOMAIN Booked :
                ~SharePositiveTime(examined[i], examined[i] + SlotLength,
                                   Booked[j][1], Booked[j][2])

\* a slot was rejected for a booking it overlaps and the slot accepted touches
\* a booking at an endpoint
C17_Witness ==
    /\ Found
    /\ Len(examined) > 1
    /\ \E j \in DOMAIN Booked :
           Touching(next_available, next_available + SlotLength,
                    Booked[j][1], Booked[j][2])

-----------------------------------------------------------------------------
(* C15, C16, C18, C19: main's loop over the spaces *)

\* analyze_space has passed lines 473-478 for the current space
HoursBound == pc \in { "periods", "search", "date", "interval", "slot", "report", "done" }

\* C15: over the analyze_space calls of one run that share one
\* location_hours_cache, get_location_hours is called at most once for each
\* location_id, and every space analysed uses the value held in the cache for
\* its location.
C15_FetchedAtMostOnce ==
    /\ \A i, j \in DOMAIN fetched : i # j => fetched[i] # fetched[j]
    /\ HoursBound => hours_by_date = location_hours_cache[spaces[space_idx]]

\* a second space of an already cached location got its hours without a fetch
C15_Witness ==
    /\ space_idx = 2
    /\ spaces[1] = spaces[2]
    /\ HoursBound
    /\ fetched = << spaces[1] >>

\* the spaces whose analysis raises
Failing == { i \in DOMAIN spaces : Raises(provider_bookings[i]) }

\* the spaces that have a row in a result file
Written ==
    UNION { { f.rows[k].space_id : k \in DOMAIN f.rows } : f \in csv_files }

\* C16: a failure while one space is analysed is local: when the run has
\* ended, every space whose own analysis does not fail has been analysed and
\* its result written, also the spaces after a failing one.
C16_FailureIsLocal ==
    pc \in { "aborted", "written" } =>
        (DOMAIN spaces) \ Failing \subseteq Written

\* result records of two spaces with the same location and the same bookings
SameInputs(k, l) ==
    /\ spaces[results[k].space] = spaces[results[l].space]
    /\ provider_bookings[results[k].space] = provider_bookings[results[l].space]

\* C18: analyze_space is deterministic: two calls with identical operating
\* hours, bookings, analysis start, window and duration yield identical result
\* records, the first getting its hours from a fresh fetch and the second
\* from the cache.
C18_SameInputsSameResult ==
    \A k, l \in DOMAIN results :
        SameInputs(k, l) =>
            /\ results[k].metrics = results[l].metrics
            /\ results[k].next_available_booking = results[l].next_available_booking

\* two spaces with the same inputs were analysed, the hours fetched once, a
\* date of the mapping was scanned to its end, and a slot was found
C18_Witness ==
    /\ Len(results) = 2
    /\ SameInputs(1, 2)
    /\ Len(fetched) = 1
    /\ results[2].next_available_booking.text # "No availability"
    /\ results[2].next_available_booking.date = 8
    /\ results[2].metrics[1].booking_count > 0

\* C19: the shared inputs are read-only: no step of analyze_space,
\* calculate_total_hours, calculate_booked_hours or find_next_available_slot
\* changes the hours mapping of a cached location or the raw bookings list of
\* the space, and the only change to location_hours_cache is a new entry for
\* the location_id of the current space when it was absent.
C19_SharedInputsReadOnly ==
    [][ /\ \A l \in DOMAIN location_hours_cache :
               /\ l \in DOMAIN location_hours_cache'
               /\ location_hours_cache'[l] = location_hours_cache[l]
        /\ (DOMAIN location_hours_cache') \ (DOMAIN location_hours_cache)
               \subseteq { spaces[space_idx] }
        /\ HoursBound /\ pc' # "hours" => bookings' = bookings
        /\ provider_bookings' = provider_bookings
        /\ provider_hours' = provider_hours ]_vars

\* two locations are cached and the search has run over an unsorted raw list
C19_Witness ==
    /\ pc = "written"
    /\ DOMAIN location_hours_cache = Locations
    /\ Len(bookings) = 2
    /\ booked_intervals # << ParseBooking(bookings[1]), ParseBooking(bookings[2]) >>

-----------------------------------------------------------------------------
(* C20: the time series is only updated on Mondays *)

\* the call is made on a Monday (weekday 0 of datetime.weekday())
CalledOnMonday == today = 0

\* C20: a call of update_time_series_data on a weekday other than Monday
\* writes nothing to the time-series file and returns exactly the data stored
\* in it (the empty {dates: [], spaces: {}} structure when there is no file),
\* whatever result files the output directory holds.
C20_OnlyMondaysUpdate ==
    [][ ~CalledOnMonday /\ pc = "dashboard" =>
            /\ time_series_file' = time_series_file
            /\ file_writes' = file_writes
            /\ time_series_data' = IF time_series_file.exists
                                   THEN time_series_file.data
                                   ELSE EmptyTimeSeries ]_vars

\* the call has returned on another weekday while the output directory holds
\* Monday files from which a rebuild would give other data than the stored
C20_Witness ==
    /\ pc = "dashboard_done"
    /\ ~CalledOnMonday
    /\ time_series_file.exists
    /\ get_monday_files(csv_files) # << >>
    /\ time_series_data #
           RebuildLoop(EmptyTimeSeries, get_monday_files(csv_files), 1)

-----------------------------------------------------------------------------
(* C23, C24, C27, C28: the scan order, short intervals, the range of the
   metrics, bookings of no length *)

\* C23: the candidate slot starts that find_next_available_slot examines form
\* a strictly increasing sequence in time, across dates, across the operating
\* intervals of one date and across the ticks of one interval.
C23_ExaminedIncreasing ==
    \A i \in 1..(Len(examined) - 1) : examined[i] < examined[i + 1]

\* C24: an operating interval shorter than the required duration yields no
\* candidate: the interval a returned slot was generated from is at least as
\* long as the duration, whatever its open time.
C24_ShortIntervalYieldsNothing ==
    Found =>
        LET iv == << current_date, interval_idx >>
        IN  CloseOf(iv) - OpenOf(iv) >= SlotLength

\* C27: for every period the booked hours do not exceed the available hours
\* and the booking rate lies between 0 and 100 percent, whatever the bookings.
C27_BookedWithinAvailable ==
    pc = "done" =>
        \A p \in Periods :
            /\ metrics[p].total_hours_booked <= metrics[p].total_hours_available
            /\ metrics[p].booking_rate >= 0
            /\ metrics[p].booking_rate <= 10000

\* the parsed booking b overlaps the slot starting at s
Blocks(b, s) == s < b[2] /\ s + SlotLength > b[1]

\* C28: a booking whose end is not after its start never blocks a candidate
\* slot, so the slot returned is the one returned without that record: every
\* slot the search rejected is overlapped by a booking with start < end.
C28_EmptyBookingNeverBlocks ==
    \A i \in 1..Len(examined) :
        examined[i] # next_available =>
            \E k \in 1..Len(booked_intervals) :
                /\ booked_intervals[k][1] < booked_intervals[k][2]
                /\ Blocks(booked_intervals[k], examined[i])

-----------------------------------------------------------------------------
(* C29: the time series after a Monday rebuild *)

\* update_time_series_data has returned from a rebuild
Rebuilt ==
    /\ pc = "dashboard_done"
    /\ CalledOnMonday
    /\ \E f \in csv_files : f.name # BadName /\ WeekdayOf(f.name) = 0

\* the result file of date d that the rebuild reads: the first in the order of
\* the paths (line 186 skips a later file of a date already entered)
FileOfDate(d) ==
    CHOOSE f \in csv_files :
        f.name = d /\ \A g \in csv_files : g.name = d => f.path <= g.path

\* the file holds a row of the space with this rate (an empty cell reads 0)
HasRate(file, space_id, rate) ==
    \E j \in 1..Len(file.rows) :
        /\ file.rows[j].space_id = space_id
        /\ rate = (IF file.rows[j].booking_rate_1week = EmptyCell THEN 0
                   ELSE file.rows[j].booking_rate_1week)

\* C29: after a Monday rebuild the dates are strictly increasing and every
\* space has exactly one value per date, its i-th value being its
\* booking_rate_1week in the file of the i-th date, also when a space is
\* missing from some of the Monday files.
C29_SeriesAlignedWithDates ==
    Rebuilt =>
        LET dates == time_series_data.dates
            series == time_series_data.spaces
        IN  /\ \A i \in 1..(Len(dates) - 1) : dates[i] < dates[i + 1]
            /\ \A id \in DOMAIN series :
                   /\ Len(series[id].data) = Len(dates)
                   /\ \A i \in 1..Len(dates) :
                          HasRate(FileOfDate(dates[i]), id, series[id].data[i])

-----------------------------------------------------------------------------
(* C21, C22: the days and the colour of a card *)

\* the call of the function fn has returned
Called(fn) == pc = "called" /\ call.fn = fn

\* the cell is neither a date nor a date with a time
NotADate(cell) ==
    \/ "text" \notin DOMAIN cell
    \/ cell.text \notin { "%Y-%m-%d %H:%M", "%Y-%m-%d" }
    \/ cell.hour \notin 0..23
    \/ cell.minute \notin 0..59

\* C21: a next_available value that is the engine's "No availability", empty,
\* 'none', 'n/a' or otherwise not a date makes calculate_days_until return
\* MAX_DAYS_FOR_RED + 1 without raising, and the card is full red and labelled
\* 14+ days
C21_SentinelIsUnavailable ==
    Called("load_current_data") /\ NotADate(call.next_available) =>
        /\ returned.raised = ""
        /\ returned.days_until = 15
        /\ returned.color = << 239, 68, 68 >>
        /\ returned.days_text.text = "14+ days"

\* the row of a space for which the engine found no slot has become a card
C21_Witness ==
    /\ Called("load_current_data")
    /\ \E slot \in { None } : call.next_available = FormatNextAvailable(slot)
    /\ call.next_available.text = "No availability"
    /\ returned.raised = ""
    /\ returned.days_until = 15

\* the channel value lies between the two ends, ends included
BetweenEnds(value, green, red) ==
    (green <= value /\ value <= red) \/ (red <= value /\ value <= green)

\* from the channel value of fewer days to that of more days the channel does
\* not move back toward green
TowardRed(fewer, more, green, red) ==
    IF green <= red THEN fewer <= more ELSE fewer >= more

\* C22: interpolate_color returns exactly green for days <= 0, exactly red for
\* days >= 14, and in between every channel lies between its green and its red
\* value and moves monotonically from green toward red as days grows
C22_ColourBetweenGreenAndRed ==
    Called("interpolate_color") =>
        /\ call.days <= 0 => returned = << 34, 197, 94 >>
        /\ call.days >= 14 => returned = << 239, 68, 68 >>
        /\ \A c \in 1..3 :
             /\ BetweenEnds(returned[c], << 34, 197, 94 >>[c], << 239, 68, 68 >>[c])
             /\ \A fewer \in DaysRange :
                  fewer < call.days =>
                      TowardRed(interpolate_color(fewer)[c], returned[c],
                                << 34, 197, 94 >>[c], << 239, 68, 68 >>[c])

\* a colour strictly between green and red has been returned, and so has red
\* for more than 14 days
C22_Witness ==
    /\ Called("interpolate_color")
    /\ \/ call.days = 15 /\ returned = << 239, 68, 68 >>
       \/ call.days = 7 /\ returned = << 136, 132, 81 >>

-----------------------------------------------------------------------------
(* C26: the location entry the hours are taken from *)

\* the positions of the entries whose lid is the requested location_id
Matching == { i \in DOMAIN call.data : Str(call.data[i].lid) = call.location_id }

\* the positions of the entries that have dates
WithDates == { i \in DOMAIN call.data : "dates" \in DOMAIN call.data[i] }

\* the hours of the entry at position i, taken alone
EntryHours(i) ==
    IF "dates" \in DOMAIN call.data[i] THEN DatesHours(call.data[i].dates) ELSE << >>

\* C26: the hours returned by get_location_hours, when it returns, are those
\* of one entry: the entry whose lid is the requested location_id, or, when no
\* lid matches, the first entry with dates; no other entry contributes
C26_HoursOfOneLocation ==
    Called("get_location_hours") /\ returned.raised = "" =>
        IF Matching # {} THEN \E i \in Matching : returned.hours = EntryHours(i)
        ELSE IF WithDates # {}
        THEN \E i \in WithDates : /\ \A j \in WithDates : i <= j
                                  /\ returned.hours = EntryHours(i)
        ELSE returned.hours = << >>

\* the requested location stands behind another location with other hours
C26_Witness ==
    /\ Called("get_location_hours")
    /\ Len(call.data) >= 2
    /\ 1 \in WithDates \ Matching
    /\ Matching # {}
    /\ returned.raised = ""
    /\ returned.hours # << >>
    /\ returned.hours # EntryHours(1)

-----------------------------------------------------------------------------
(* C25: the search ends *)

\* once a slot has been found, no further candidate is examined
NoSlotExaminedAfterFound == [][next_available # None => examined' = examined]_vars

\* a search that ends without a slot has passed the date sixteen weeks after
\* the start, and one that ends with a slot has examined it last
EndsAtFirstOrAfterLastDate ==
    pc = "done" =>
        IF next_available = None
        THEN current_date = DateOf(analysis_start + Weeks(16)) + 1
        ELSE examined # << >> /\ examined[Len(examined)] = next_available

\* C25: find_next_available_slot terminates for every hours mapping, booking
\* list, start and duration, duration 0 included: it stops at the first
\* available candidate without examining a later one, and otherwise after the
\* dates from start_time through start_time + 16 weeks
C25_SearchTerminates ==
    /\ <>(pc = "done")
    /\ NoSlotExaminedAfterFound
    /\ []EndsAtFirstOrAfterLastDate

\* a search for a slot of duration 0 has examined candidates, found every one
\* of them taken and ended without a slot
C25_Witness ==
    /\ pc = "done"
    /\ booking_duration_hours = 0
    /\ next_available = None
    /\ examined # << >>

====
